---------------------------- MODULE Spec2Model ----------------------------
(***************************************************************************)
(* A model of mcp-server-google-analytics: the MCP tool handlers that sit  *)
(* in front of the Google Analytics Data/Admin clients, the client         *)
(* singleton they read, and the pure helpers they call (the filter         *)
(* expression builder and the parameter normalisers).                      *)
(*                                                                         *)
(* Encoding of Python values                                               *)
(*   dict          a record / function whose DOMAIN is the set of keys     *)
(*                 ({} is the function with the empty domain)              *)
(*   list          a sequence                                              *)
(*   None          PyNone                                                  *)
(*   exception     a record [exc |-> class, arg |-> what str(e) names]     *)
(*   f(x) result   Ok(v) when f returns v, Raise(e) when f raises e        *)
(* The vendor clients are opaque: a call on one either returns a response  *)
(* or raises, chosen nondeterministically.                                 *)
(***************************************************************************)
EXTENDS Integers, Sequences, FiniteSets, TLC

VARIABLES
    analytics_client,     \* module global: the Data API client, or PyNone
    admin_client,         \* module global: the Admin API client, or PyNone
    default_property_id,  \* module global: GA_PROPERTY_ID, or PyNone
    main_pc,              \* main(): "start", "serving" (mcp.run()) or "exited"
    inv,                  \* the tool invocation in progress or last finished
    fn,                   \* pure-function harness: the function applied
    arg,                  \* pure-function harness: its argument
    out,                  \* pure-function harness: its result, or Pending
    tasks                 \* event loop: the invocations in flight side by side

vars ==
    <<analytics_client, admin_client, default_property_id, main_pc, inv, fn, arg, out,
      tasks>>

---------------------------------------------------------------------------
(* Python values *)

PyNone == [t |-> "None"]

EmptyDict == [k \in {} |-> k]

Has(d, k) == k \in DOMAIN d

Ok(v) == [ok |-> TRUE, val |-> v]

Raise(e) == [ok |-> FALSE, exc |-> e]

KeyError(k) == [exc |-> "KeyError", arg |-> k]

AttributeError(name) == [exc |-> "AttributeError", arg |-> name]

ValueError(msg) == [exc |-> "ValueError", arg |-> msg]

Pending == [t |-> "pending"]

---------------------------------------------------------------------------
(* Scalars and the built-in conversions int() and float().  A str is a     *)
(* sequence of one-character strings; a float is a decimal fraction        *)
(* num/den with den a power of ten, in lowest decimal terms.               *)

IntV(n) == [t |-> "int", n |-> n]

StrV(chars) == [t |-> "str", v |-> chars]

Digits == {"0", "1", "2", "3", "4", "5", "6", "7", "8", "9"}

DigitVal(c) ==
    CASE c = "0" -> 0 [] c = "1" -> 1 [] c = "2" -> 2 [] c = "3" -> 3
      [] c = "4" -> 4 [] c = "5" -> 5 [] c = "6" -> 6 [] c = "7" -> 7
      [] c = "8" -> 8 [] c = "9" -> 9

IsDigits(cs) == \A i \in 1..Len(cs) : cs[i] \in Digits

RECURSIVE DigitsVal(_)
DigitsVal(cs) ==
    IF cs = <<>> THEN 0
    ELSE 10 * DigitsVal(SubSeq(cs, 1, Len(cs) - 1)) + DigitVal(cs[Len(cs)])

RECURSIVE Pow10(_)
Pow10(k) == IF k = 0 THEN 1 ELSE 10 * Pow10(k - 1)

RECURSIVE Dec(_, _)
Dec(num, den) ==
    IF den > 1 /\ num % 10 = 0 THEN Dec(num \div 10, den \div 10)
    ELSE [num |-> num, den |-> den]

Unsigned(cs) == IF cs # <<>> /\ cs[1] = "-" THEN Tail(cs) ELSE cs

Sign(cs) == IF cs # <<>> /\ cs[1] = "-" THEN -1 ELSE 1

\* int(x): an int is returned as is; a str must be an optional sign and one
\* or more digits.
PyInt(x) ==
    IF x.t = "int" THEN Ok(x.n)
    ELSE LET body == Unsigned(x.v)
         IN  IF body # <<>> /\ IsDigits(body)
             THEN Ok(Sign(x.v) * DigitsVal(body))
             ELSE Raise(ValueError("invalid literal for int()"))

DotAt(cs) == {i \in 1..Len(cs) : cs[i] = "."}

\* float(x): an int converts exactly; a str must be an optional sign and
\* digits with at most one decimal point and at least one digit.
PyFloat(x) ==
    IF x.t = "int" THEN Ok(Dec(x.n, 1))
    ELSE LET body == Unsigned(x.v)
             dots == DotAt(body)
         IN  IF dots = {}
             THEN IF body # <<>> /\ IsDigits(body)
                  THEN Ok(Dec(Sign(x.v) * DigitsVal(body), 1))
                  ELSE Raise(ValueError("could not convert string to float"))
             ELSE LET d     == CHOOSE i \in dots : TRUE
                      whole == SubSeq(body, 1, d - 1)
                      frac  == SubSeq(body, d + 1, Len(body))
                  IN  IF Cardinality(dots) = 1 /\ IsDigits(whole) /\ IsDigits(frac)
                         /\ Len(whole) + Len(frac) > 0
                      THEN Ok(Dec(Sign(x.v) * DigitsVal(whole \o frac), Pow10(Len(frac))))
                      ELSE Raise(ValueError("could not convert string to float"))

---------------------------------------------------------------------------
(* json.loads.  A JSON text is a sequence of lexical tokens: the six       *)
(* punctuation marks, str and num tokens carrying the value they denote,   *)
(* null, and "word" for a run of characters that is no JSON token (a bare  *)
(* name such as activeUsers).  The parser below is the JSON grammar over   *)
(* those tokens; a parse is [ok, type, val, rest].                         *)

Tok(k) == [k |-> k]

TStr(v) == [k |-> "str", val |-> v]

TNum(n) == [k |-> "num", val |-> IntV(n)]

TWord(w) == [k |-> "word", val |-> w]

\* a Python str, given by the tokens json.loads would see in it
Text(tokens) == [t |-> "str", text |-> tokens]

ListV(items) == [t |-> "list", v |-> items]

DictV(d) == [t |-> "dict", v |-> d]

ParseFail == [ok |-> FALSE]

Parsed(type, val, rest) == [ok |-> TRUE, type |-> type, val |-> val, rest |-> rest]

RECURSIVE ParseValue(_)
RECURSIVE ParseElements(_, _)
RECURSIVE ParseMembers(_, _)

\* after "[" and the elements so far: a value, then "," or "]"
ParseElements(toks, items) ==
    LET x == ParseValue(toks)
    IN  IF ~x.ok \/ x.rest = <<>> THEN ParseFail
        ELSE IF Head(x.rest).k = "]"
             THEN Parsed("list", Append(items, x.val), Tail(x.rest))
        ELSE IF Head(x.rest).k = ","
             THEN ParseElements(Tail(x.rest), Append(items, x.val))
        ELSE ParseFail

\* after "{" and the members so far: a str key, ":", a value, then "," or
\* "}"; a repeated key keeps the last value
ParseMembers(toks, d) ==
    IF Len(toks) < 2 \/ toks[1].k # "str" \/ toks[2].k # ":" THEN ParseFail
    ELSE LET x == ParseValue(SubSeq(toks, 3, Len(toks)))
         IN  IF ~x.ok \/ x.rest = <<>> THEN ParseFail
             ELSE LET d2 == (toks[1].val :> x.val) @@ d
                  IN  IF Head(x.rest).k = "}" THEN Parsed("dict", d2, Tail(x.rest))
                      ELSE IF Head(x.rest).k = "," THEN ParseMembers(Tail(x.rest), d2)
                      ELSE ParseFail

ParseValue(toks) ==
    IF toks = <<>> THEN ParseFail
    ELSE LET h == Head(toks)
             r == Tail(toks)
         IN  CASE h.k = "str"  -> Parsed("str", h.val, r)
               [] h.k = "num"  -> Parsed("int", h.val, r)
               [] h.k = "null" -> Parsed("None", PyNone, r)
               [] h.k = "["    -> IF r # <<>> /\ Head(r).k = "]"
                                  THEN Parsed("list", <<>>, Tail(r))
                                  ELSE ParseElements(r, <<>>)
               [] h.k = "{"    -> IF r # <<>> /\ Head(r).k = "}"
                                  THEN Parsed("dict", EmptyDict, Tail(r))
                                  ELSE ParseMembers(r, EmptyDict)
               [] OTHER        -> ParseFail

\* json.loads(s): the value of the one JSON value s holds, or JSONDecodeError
json_loads(s) ==
    LET x == ParseValue(s.text)
    IN  IF x.ok /\ x.rest = <<>> THEN x ELSE ParseFail

---------------------------------------------------------------------------
(* utils.py / server.py: parameter preprocessing and resource paths *)

\* a preprocess_list_param that gives up on text that is no JSON
preprocess_list_param_strict(param) ==
    IF param = PyNone THEN PyNone
    ELSE IF param.t = "list" THEN param
    ELSE IF param.t = "str"
    THEN LET parsed == json_loads(param)
         IN  IF parsed.ok
             THEN IF parsed.type = "list" THEN ListV(parsed.val) ELSE ListV(<<param>>)
             ELSE PyNone
    ELSE PyNone

\* preprocess_list_param(param): a list (a sequence), or PyNone
preprocess_list_param(param) ==
    IF param = PyNone THEN PyNone
    ELSE IF param.t = "list" THEN param
    ELSE IF param.t = "str"
    THEN LET parsed == json_loads(param)
         IN  IF parsed.ok
             THEN IF parsed.type = "list" THEN ListV(parsed.val) ELSE ListV(<<param>>)
             ELSE ListV(<<param>>)
    ELSE PyNone

\* a preprocess_dict_param that lets a JSON value that is no mapping through
preprocess_dict_param_lenient(param) ==
    IF param = PyNone THEN Ok(PyNone)
    ELSE IF param.t = "dict" THEN Ok(param)
    ELSE IF param.t = "str"
    THEN LET parsed == json_loads(param)
         IN  IF parsed.ok
             THEN IF parsed.type = "dict" THEN Ok(DictV(parsed.val))
                  ELSE Ok(ListV(<<parsed.val>>))
             ELSE Raise(ValueError("Invalid JSON string for filter parameter"))
    ELSE Raise(ValueError("Filter parameter must be dict or JSON string"))

\* preprocess_dict_param(param): Ok(a dict or PyNone), or Raise(ValueError)
preprocess_dict_param(param) ==
    IF param = PyNone THEN Ok(PyNone)
    ELSE IF param.t = "dict" THEN Ok(param)
    ELSE IF param.t = "str"
    THEN LET parsed == json_loads(param)
         IN  IF parsed.ok
             THEN IF parsed.type = "dict" THEN Ok(DictV(parsed.val))
                  ELSE Raise(ValueError("Expected dict but got"))
             ELSE Raise(ValueError("Invalid JSON string for filter parameter"))
    ELSE Raise(ValueError("Filter parameter must be dict or JSON string"))

\* bool(x) is False: None, "", [] and {}
Falsy(x) ==
    \/ x = PyNone
    \/ x.t = "str" /\ x.text = <<>>
    \/ x.t = "list" /\ x.v = <<>>
    \/ x.t = "dict" /\ DOMAIN x.v = {}

\* s.startswith(prefix), for a prefix that is one word of s
startswith(s, prefix) == s.text # <<>> /\ Head(s.text) = TWord(prefix)

\* f"{prefix}{s}"
Prefixed(prefix, s) == Text(<<TWord(prefix)>> \o s.text)

\* f"{s}{suffix}"
Suffixed(s, suffix) == Text(s.text \o <<TWord(suffix)>>)

format_parent_id(parent_id) ==
    IF startswith(parent_id, "accounts/") THEN parent_id
    ELSE Prefixed("accounts/", parent_id)

\* a format_property_id that adds the prefix without looking
format_property_id_always(property_id) == Prefixed("properties/", property_id)

format_property_id(property_id) ==
    IF startswith(property_id, "properties/") THEN property_id
    ELSE Prefixed("properties/", property_id)

\* server.py normalize_filter_keys: key_mappings, camelCase to snake_case
key_mappings ==
    [fieldName     |-> "field_name",     matchType     |-> "match_type",
     caseSensitive |-> "case_sensitive", int64Value    |-> "int64_value",
     doubleValue   |-> "double_value",   fromValue     |-> "from_value",
     toValue       |-> "to_value",       stringFilter  |-> "string_filter",
     numericFilter |-> "numeric_filter", betweenFilter |-> "between_filter",
     inListFilter  |-> "in_list_filter", andGroup      |-> "and_group",
     orGroup       |-> "or_group",       notExpression |-> "not_expression"]

\* key_mappings.get(key, key)
NewKey(key) == IF key \in DOMAIN key_mappings THEN key_mappings[key] ELSE key

\* a normalize_filter_keys that maps the keys of data and leaves its values
normalize_filter_keys_shallow(data) ==
    IF data.t # "dict" THEN data
    ELSE DictV([new_key \in {NewKey(k) : k \in DOMAIN data.v} |->
                   data.v[CHOOSE k \in DOMAIN data.v : NewKey(k) = new_key]])

RECURSIVE normalize_filter_keys(_)

\* normalize_filter_keys(data), on values that carry their Python type.  Of
\* two keys of data with the same new key the one inserted later wins;
\* the mappings here hold at most one key for each new key.
normalize_filter_keys(data) ==
    IF data.t # "dict" THEN data
    ELSE DictV([new_key \in {NewKey(k) : k \in DOMAIN data.v} |->
            LET value == data.v[CHOOSE k \in DOMAIN data.v : NewKey(k) = new_key]
            IN  IF value.t = "dict" THEN normalize_filter_keys(value)
                ELSE IF value.t = "list"
                THEN ListV([i \in 1..Len(value.v) |->
                               IF value.v[i].t = "dict"
                               THEN normalize_filter_keys(value.v[i])
                               ELSE value.v[i]])
                ELSE value])

\* s.lower(), on the words that occur in the inputs
LowerWord(w) ==
    CASE w = "Today" -> "today" [] w = "Yesterday" -> "yesterday"
      [] w = "daysAgo" -> "daysago" [] w = "monthAgo" -> "monthago"
      [] w = "monthsAgo" -> "monthsago" [] w = "Ago" -> "ago"
      [] OTHER -> w

lower(s) ==
    [i \in 1..Len(s.text) |->
        IF s.text[i].k = "word" THEN TWord(LowerWord(s.text[i].val)) ELSE s.text[i]]

Without(toks, w) == SelectSeq(toks, LAMBDA x : x # TWord(w))

\* int(s) of a str given by its tokens: exactly one number
IntOfTokens(toks) ==
    IF Len(toks) = 1 /\ toks[1].k = "num" THEN Ok(toks[1].val.n)
    ELSE Raise(ValueError("invalid literal for int()"))

MonthWords == {"month", "monthago", "monthsago"}

AgoWords == {"ago", "daysago", "monthago", "monthsago"}

IsWordIn(tok, words) == tok.k = "word" /\ tok.val \in words

\* strftime("%Y-%m-%d") of a day, as a str
DateStr(day) == Text(<<[k |-> "date", val |-> day]>>)

OverflowError(msg) == [exc |-> "OverflowError", arg |-> msg]

\* (datetime.now() - timedelta(days=days)).strftime("%Y-%m-%d"), days being
\* counted from datetime.min (day 1) to datetime.max (day 3652059): a date
\* outside that range is an OverflowError
DaysBefore(now, days) ==
    IF now - days >= 1 /\ now - days <= 3652059 THEN Ok(DateStr(now - days))
    ELSE Raise(OverflowError("date value out of range"))

\* parse_date_string(date_str), now being the day datetime.now() falls on:
\* Ok(a str), or Raise(OverflowError)
parse_date_string(date_str, now) ==
    LET low == lower(date_str)
        n   == Len(low)
        daysago == IntOfTokens(Without(low, "daysago"))
        first_month == CHOOSE i \in 1..n : IsWordIn(low[i], MonthWords)
                          /\ \A j \in 1..(i - 1) : ~IsWordIn(low[j], MonthWords)
        months == IntOfTokens(SubSeq(low, 1, first_month - 1))
    IN  IF low = <<TWord("today")>> THEN DaysBefore(now, 0)
        ELSE IF low = <<TWord("yesterday")>> THEN DaysBefore(now, 1)
        ELSE IF n > 0 /\ low[n] = TWord("daysago") /\ daysago.ok
             THEN DaysBefore(now, daysago.val)
        ELSE IF /\ \E i \in 1..n : IsWordIn(low[i], MonthWords)
                /\ IsWordIn(low[n], AgoWords)
                /\ months.ok
             THEN DaysBefore(now, months.val * 30)
        ELSE Ok(date_str)

---------------------------------------------------------------------------
(* The filter expression builder, build_filter_expression.  Its result is  *)
(* a FilterExpression: [kind |-> "filter", filter |-> Filter],             *)
(* [kind |-> "and_group" | "or_group", expressions |-> <<...>>] or         *)
(* [kind |-> "not_expression", not_expression |-> FilterExpression].  A    *)
(* Filter is [field_name, one_filter]; one_filter and a NumericValue are   *)
(* protobuf oneofs, [kind |-> "unset"] while no member has been assigned.  *)

\* Filter.StringFilter.MatchType, the vendor's enum
MatchType ==
    {"MATCH_TYPE_UNSPECIFIED", "EXACT", "BEGINS_WITH", "ENDS_WITH", "CONTAINS",
     "FULL_REGEXP", "PARTIAL_REGEXP"}

\* Filter.NumericFilter.Operation, the vendor's enum
Operation ==
    {"OPERATION_UNSPECIFIED", "EQUAL", "LESS_THAN", "LESS_THAN_OR_EQUAL",
     "GREATER_THAN", "GREATER_THAN_OR_EQUAL"}

\* a lookup that falls back to a member of the enum for an unknown token
getattr_default(enum, token) ==
    IF token \in enum THEN Ok(token) ELSE Ok(CHOOSE m \in enum : TRUE)

\* getattr(Enum, token), without a default: the member named token, or
\* AttributeError naming the token
getattr(enum, token) ==
    IF token \in enum THEN Ok(token) ELSE Raise(AttributeError(token))

\* d.get(k, default)
DictGet(d, k, default) == IF Has(d, k) THEN d[k] ELSE default

Unset == [kind |-> "unset"]

\* NumericValue() followed by the if / elif that assigns int64_value or
\* double_value; neither branch taken leaves the oneof unset
NumericValue(value) ==
    IF Has(value, "int64_value")
    THEN LET n == PyInt(value["int64_value"])
         IN  IF n.ok THEN Ok([kind |-> "int64_value", int64_value |-> n.val]) ELSE n
    ELSE IF Has(value, "double_value")
    THEN LET x == PyFloat(value["double_value"])
         IN  IF x.ok THEN Ok([kind |-> "double_value", double_value |-> x.val]) ELSE x
    ELSE Ok(Unset)

StringFilter(string_filter_data) ==
    LET match_type == getattr(MatchType, DictGet(string_filter_data, "match_type", "EXACT"))
    IN  IF ~match_type.ok THEN match_type
        ELSE IF ~Has(string_filter_data, "value") THEN Raise(KeyError("value"))
        ELSE Ok([kind           |-> "string_filter",
                 match_type     |-> match_type.val,
                 value          |-> string_filter_data["value"],
                 case_sensitive |-> DictGet(string_filter_data, "case_sensitive", FALSE)])

NumericFilter(numeric_filter_data) ==
    IF ~Has(numeric_filter_data, "value") THEN Raise(KeyError("value"))
    ELSE LET numeric_value == NumericValue(numeric_filter_data["value"])
         IN  IF ~numeric_value.ok THEN numeric_value
             ELSE IF ~Has(numeric_filter_data, "operation") THEN Raise(KeyError("operation"))
             ELSE LET operation == getattr(Operation, numeric_filter_data["operation"])
                  IN  IF ~operation.ok THEN operation
                      ELSE Ok([kind      |-> "numeric_filter",
                               operation |-> operation.val,
                               value     |-> numeric_value.val])

BetweenFilter(between_filter_data) ==
    IF ~Has(between_filter_data, "from_value") THEN Raise(KeyError("from_value"))
    ELSE LET from_value == NumericValue(between_filter_data["from_value"])
         IN  IF ~from_value.ok THEN from_value
             ELSE IF ~Has(between_filter_data, "to_value") THEN Raise(KeyError("to_value"))
             ELSE LET to_value == NumericValue(between_filter_data["to_value"])
                  IN  IF ~to_value.ok THEN to_value
                      ELSE Ok([kind       |-> "between_filter",
                               from_value |-> from_value.val,
                               to_value   |-> to_value.val])

InListFilter(in_list_filter_data) ==
    IF ~Has(in_list_filter_data, "values") THEN Raise(KeyError("values"))
    ELSE Ok([kind           |-> "in_list_filter",
             values         |-> in_list_filter_data["values"],
             case_sensitive |-> DictGet(in_list_filter_data, "case_sensitive", FALSE)])

\* The if / elif chain over the predicate keys of filter_data; a filter_data
\* with none of the four keys it tests leaves the Filter's oneof unset
OneFilter(filter_data) ==
    IF Has(filter_data, "string_filter") THEN StringFilter(filter_data["string_filter"])
    ELSE IF Has(filter_data, "numeric_filter") THEN NumericFilter(filter_data["numeric_filter"])
    ELSE IF Has(filter_data, "between_filter") THEN BetweenFilter(filter_data["between_filter"])
    ELSE IF Has(filter_data, "in_list_filter") THEN InListFilter(filter_data["in_list_filter"])
    ELSE Ok(Unset)

\* The "filter" branch: Filter(field_name=filter_data["field_name"]), then
\* the predicate, then FilterExpression(filter=filter_obj)
SingleFilter(filter_data) ==
    IF ~Has(filter_data, "field_name") THEN Raise(KeyError("field_name"))
    ELSE LET one == OneFilter(filter_data)
         IN  IF ~one.ok THEN one
             ELSE Ok([kind   |-> "filter",
                      filter |-> [field_name |-> filter_data["field_name"],
                                  one_filter |-> one.val]])

\* a list that grows at its front
Prepend_expression(expressions, x) == <<x>> \o expressions

\* expressions.append(x): the list with x added at the end
Append_expression(expressions, x) == Append(expressions, x)

RECURSIVE build_filter_expression(_)
RECURSIVE build_expressions(_, _)
RECURSIVE build_expressions_skipping(_, _)

\* a loop that leaves out a child whose build raised and goes on
build_expressions_skipping(configs, expressions) ==
    IF configs = <<>> THEN Ok(expressions)
    ELSE LET x == build_filter_expression(Head(configs))
         IN  IF ~x.ok THEN build_expressions_skipping(Tail(configs), expressions)
             ELSE build_expressions_skipping(Tail(configs), Append(expressions, x.val))

\* for expr_config in group["expressions"]:
\*     expressions.append(build_filter_expression(expr_config))
\* The first child that raises ends the loop and the exception propagates.
build_expressions(configs, expressions) ==
    IF configs = <<>> THEN Ok(expressions)
    ELSE LET x == build_filter_expression(Head(configs))
         IN  IF ~x.ok THEN x
             ELSE build_expressions(Tail(configs), Append_expression(expressions, x.val))

Group(kind, group) ==
    IF ~Has(group, "expressions") THEN Raise(KeyError("expressions"))
    ELSE LET expressions == build_expressions(group["expressions"], <<>>)
         IN  IF ~expressions.ok THEN expressions
             ELSE Ok([kind |-> kind, expressions |-> expressions.val])

NotExpression(config) ==
    LET x == build_filter_expression(config)
    IN  IF ~x.ok THEN x
        ELSE Ok([kind |-> "not_expression", not_expression |-> x.val])

build_filter_expression(filter_config) ==
    IF Has(filter_config, "filter") THEN SingleFilter(filter_config["filter"])
    ELSE IF Has(filter_config, "and_group") THEN Group("and_group", filter_config["and_group"])
    ELSE IF Has(filter_config, "or_group") THEN Group("or_group", filter_config["or_group"])
    ELSE IF Has(filter_config, "not_expression") THEN NotExpression(filter_config["not_expression"])
    ELSE Raise(ValueError("Invalid filter configuration"))

---------------------------------------------------------------------------
(* Bounded inputs of the filter builder *)

MaxWidth == 2       \* longest "expressions" list of a generated group
MaxDepth == 2       \* deepest nesting of generated groups

\* a dict that may or may not hold key k, with a value from vals
OptKey(k, vals) == {EmptyDict} \cup {k :> v : v \in vals}

Int64Inputs == {IntV(100), StrV(<<"7">>), StrV(<<"-", "1", "2">>), StrV(<<"x">>)}

DoubleInputs == {IntV(2), StrV(<<"1", ".", "5", "0">>), StrV(<<"1", ".", ".">>)}

NumericValueInputs ==
    {a @@ b : a \in OptKey("int64_value", Int64Inputs),
              b \in OptKey("double_value", DoubleInputs)}

RangeValueInputs ==
    {a @@ b : a \in OptKey("int64_value", {IntV(1), StrV(<<"x">>)}),
              b \in OptKey("double_value", {StrV(<<"2", ".", "5">>)})}

MatchTypeTokens == {"EXACT", "CONTAINS", "exact", "REGEX"}

OperationTokens == {"GREATER_THAN", "EQUAL", "GT"}

StringFilterInputs ==
    {a @@ b @@ c : a \in OptKey("match_type", MatchTypeTokens),
                   b \in OptKey("value", {"US"}),
                   c \in OptKey("case_sensitive", {TRUE})}

NumericFilterInputs ==
    {a @@ b : a \in OptKey("operation", OperationTokens),
              b \in OptKey("value", NumericValueInputs)}

BetweenFilterInputs ==
    {a @@ b : a \in OptKey("from_value", RangeValueInputs),
              b \in OptKey("to_value", RangeValueInputs)}

InListFilterInputs ==
    {a @@ b : a \in OptKey("values", {<<"first_visit", "purchase">>}),
              b \in OptKey("case_sensitive", {TRUE})}

\* filter_data with no predicate key, with one, and with two
PredicateInputs ==
    {EmptyDict}
    \cup {"string_filter" :> d : d \in StringFilterInputs}
    \cup {"numeric_filter" :> d : d \in NumericFilterInputs}
    \cup {"between_filter" :> d : d \in BetweenFilterInputs}
    \cup {"in_list_filter" :> d : d \in InListFilterInputs}
    \cup {"empty_filter" :> EmptyDict}
    \cup {("numeric_filter" :> n) @@ ("string_filter" :> d) :
             n \in {[operation |-> "EQUAL", value |-> [int64_value |-> IntV(100)]]},
             d \in {[value |-> "US"], [match_type |-> "REGEX", value |-> "US"]}}

FilterDataInputs ==
    {a @@ b : a \in OptKey("field_name", {"country"}), b \in PredicateInputs}

LeafConfigs == {"filter" :> d : d \in FilterDataInputs}

\* well-formed leaves A and B, and a leaf whose build raises
LeafA == [filter |-> [field_name |-> "country",
                      string_filter |-> [match_type |-> "EXACT", value |-> "US"]]]

LeafB == [filter |-> [field_name |-> "activeUsers",
                      numeric_filter |-> [operation |-> "GREATER_THAN",
                                          value |-> [int64_value |-> StrV(<<"1", "0", "0">>)]]]]

LeafBad == [filter |-> [field_name |-> "country",
                        string_filter |-> [match_type |-> "REGEX", value |-> "US"]]]

\* every sequence over S of length at most n
SeqsUpTo(S, n) == UNION {[1..k -> S] : k \in 0..n}

GroupOf(exprs) == [expressions |-> exprs]

\* nodes with any combination of the four discriminator keys, the empty
\* node among them
KeyComboConfigs ==
    {a @@ b @@ c @@ d :
        a \in OptKey("filter", {LeafA.filter, LeafBad.filter}),
        b \in OptKey("and_group", {GroupOf(<<LeafB>>), GroupOf(<<LeafBad>>)}),
        c \in OptKey("or_group", {GroupOf(<<LeafA, LeafB>>), EmptyDict}),
        d \in OptKey("not_expression", {LeafB, EmptyDict})}

Siblings == {LeafA, LeafB, LeafBad}

\* the lists with nested at one position and LeafA elsewhere
ListsAround(nested) ==
    {[i \in 1..kp[1] |-> IF i = kp[2] THEN nested ELSE LeafA] :
        kp \in UNION {{<<k, p>> : p \in 1..k} : k \in 1..MaxWidth}}

NestedEnds ==
    Siblings \cup {EmptyDict,
                   [filter |-> LeafA.filter, and_group |-> GroupOf(<<LeafBad>>)],
                   [and_group |-> GroupOf(<<LeafA>>), or_group |-> GroupOf(<<LeafBad>>)]}

RECURSIVE TreeConfigs(_)
TreeConfigs(depth) ==
    IF depth = 0 THEN NestedEnds
    ELSE LET below == TreeConfigs(depth - 1)
             lists == SeqsUpTo(Siblings, MaxWidth)
                      \cup UNION {ListsAround(n) : n \in below}
         IN  below
             \cup {"and_group" :> GroupOf(l) : l \in lists}
             \cup {"or_group" :> GroupOf(l) : l \in lists}
             \cup {"not_expression" :> n : n \in below}

FilterConfigs == LeafConfigs \cup KeyComboConfigs \cup TreeConfigs(MaxDepth)

---------------------------------------------------------------------------
(* Tool invocations.  An invocation is a record: the tool, its arguments,  *)
(* pc ("await" while its vendor call is pending, "done" once it has        *)
(* returned, "raised" when an exception left the handler), the number of   *)
(* vendor calls it has dispatched, the request of the last one, the locals *)
(* the handler keeps across the call, the vendor's answer to that call     *)
(* (Ok(response) or Raise(error)), and its return value.                   *)

MaxRows == 2        \* most rows in a vendor response
MaxTasks == 2       \* most invocations the event loop has in flight

DataClient == [t |-> "client", api |-> "data"]

AdminClient == [t |-> "client", api |-> "admin"]

Idle == [pc |-> "idle"]

NoRequest == [method |-> "none"]

\* an event loop with no invocation in flight
NoTasks == [i \in 1..MaxTasks |-> Idle]

Invocation(tool, args) ==
    [tool |-> tool, args |-> args, pc |-> "start", calls |-> 0,
     request |-> NoRequest, locals |-> EmptyDict, answer |-> Pending,
     result |-> Pending]

\* return value
Return(iv, value) == [iv EXCEPT !.pc = "done", !.result = value]

\* an exception leaves the handler
Propagate(iv, e) == [iv EXCEPT !.pc = "raised", !.result = e]

\* client.method(request), directly or through loop.run_in_executor
Dispatch(iv, via, method, request, locals) ==
    [iv EXCEPT !.pc = "await", !.calls = @ + 1,
               !.request = [method |-> method, via |-> via, request |-> request],
               !.locals = locals]

\* json.dumps(body): a JSON-encoded str holding body
json_dumps(body) == [fmt |-> "json", body |-> body]

\* a handler that returns the mapping itself
PlainDict(body) == [fmt |-> "dict", body |-> body]

\* proto_to_dict(obj): the message's fields as a dict
proto_to_dict(obj) == obj.fields

Proto(type, fields) == [pb |-> type, fields |-> fields]

ErrorBody(parts) == [error |-> parts]

NotInitialized == <<"Google Analytics client not initialized">>

AdminNotInitialized == <<"Google Analytics admin client not initialized">>

\* the exceptions a vendor call raises: an API error, and one that is no
\* GoogleAPIError
VendorErrors ==
    {[exc |-> "GoogleAPIError", arg |-> "429 quota exceeded"],
     [exc |-> "TransportError", arg |-> "connection reset"]}

\* except Exception as e: return json.dumps({"error": f"{prefix}{str(e)}"})
Except(iv, prefix, e) == Return(iv, json_dumps(ErrorBody(<<prefix, e.arg>>)))

\* except GoogleAPIError ... except Exception ...
ExceptGoogle(iv, prefix, e) ==
    IF e.exc = "GoogleAPIError" THEN Except(iv, "Google API error: ", e)
    ELSE Except(iv, prefix, e)

\* except Exception as e: return {"error": ...} of the handlers that return
\* a mapping
ExceptDict(iv, prefix, e) == Return(iv, PlainDict(ErrorBody(<<prefix, e.arg>>)))

TypeError(msg) == [exc |-> "TypeError", arg |-> msg]

\* [Metric(name=m) for m in names], [Dimension(name=d) for d in names]:
\* the vendor type takes a str
NameObjects(names) ==
    IF \A i \in 1..Len(names) : names[i].t = "str"
    THEN Ok([i \in 1..Len(names) |-> [name |-> names[i]]])
    ELSE Raise(TypeError("bad argument type for built-in operation"))

\* what RunReport / RunRealtimeReport answers to a request: the headers name
\* the requested dimensions and metrics, k rows of one value per header, each
\* value its own, and the number of rows the report has in all
ReportResponse(type, request, k, total) ==
    LET dims == request.fields.dimensions
        mets == request.fields.metrics
    IN  Proto(type,
              [dimension_headers |-> dims,
               metric_headers    |-> mets,
               rows |-> [r \in 1..k |->
                            [dimension_values |->
                                 [j \in 1..Len(dims) |-> [value |-> <<"d", r, j>>]],
                             metric_values    |->
                                 [j \in 1..Len(mets) |-> [value |-> <<"m", r, j>>]]]],
               row_count |-> total,
               metadata  |-> [currency_code |-> "USD", time_zone |-> "UTC"]])

ReportResponses(type, request) ==
    {ReportResponse(type, request, k, k + more) : k \in 0..MaxRows, more \in {0, 5}}

---------------------------------------------------------------------------
(* server.py: get_report, a synchronous handler *)

MetricsRequired == <<"Metrics parameter is required and must be a valid list">>

NoPropertyId == <<"No property ID provided">>

\* property_id or default_property_id
OrDefault(property_id) ==
    IF Falsy(property_id) THEN default_property_id ELSE property_id

\* a handler that leaves the filter out of the request instead of building it
FilterObjectSkipped(processed) == Ok(PyNone)

\* if config: build_filter_expression(config), else None
FilterObject(processed) ==
    IF Falsy(processed) THEN Ok(PyNone) ELSE build_filter_expression(processed.v)

\* the handler up to its return or to analytics_client.run_report(request)
server_get_report_call(args, now1, now2) ==
    LET iv == Invocation("server.get_report", args)
        prefix == "Error getting report: "
        processed_metrics == preprocess_list_param(args.metrics)
        processed_dimensions == preprocess_list_param(args.dimensions)
        processed_dimension_filter == preprocess_dict_param(args.dimension_filter)
        processed_metric_filter == preprocess_dict_param(args.metric_filter)
        prop_id == OrDefault(args.property_id)
        parsed_start == parse_date_string(args.start_date, now1)
        parsed_end == parse_date_string(args.end_date, now2)
        metric_objs == NameObjects(processed_metrics.v)
        dimension_objs == IF Falsy(processed_dimensions) THEN Ok(<<>>)
                          ELSE NameObjects(processed_dimensions.v)
        dimension_filter_obj == FilterObject(processed_dimension_filter.val)
        metric_filter_obj == FilterObject(processed_metric_filter.val)
    IN  IF Falsy(analytics_client)
        THEN Return(iv, json_dumps(ErrorBody(NotInitialized)))
        ELSE IF ~processed_dimension_filter.ok
        THEN Except(iv, prefix, processed_dimension_filter.exc)
        ELSE IF ~processed_metric_filter.ok
        THEN Except(iv, prefix, processed_metric_filter.exc)
        ELSE IF Falsy(processed_metrics)
        THEN Return(iv, json_dumps(ErrorBody(MetricsRequired)))
        ELSE IF Falsy(prop_id)
        THEN Return(iv, json_dumps(ErrorBody(NoPropertyId)))
        ELSE IF ~parsed_start.ok THEN Except(iv, prefix, parsed_start.exc)
        ELSE IF ~parsed_end.ok THEN Except(iv, prefix, parsed_end.exc)
        ELSE IF ~metric_objs.ok THEN Except(iv, prefix, metric_objs.exc)
        ELSE IF ~dimension_objs.ok THEN Except(iv, prefix, dimension_objs.exc)
        ELSE IF ~dimension_filter_obj.ok THEN Except(iv, prefix, dimension_filter_obj.exc)
        ELSE IF ~metric_filter_obj.ok THEN Except(iv, prefix, metric_filter_obj.exc)
        ELSE Dispatch(iv, "direct", "run_report",
                 Proto("RunReportRequest",
                       [property         |-> format_property_id(prop_id),
                        date_ranges      |-> <<[start_date |-> parsed_start.val,
                                                end_date   |-> parsed_end.val]>>,
                        metrics          |-> metric_objs.val,
                        dimensions       |-> dimension_objs.val,
                        dimension_filter |-> dimension_filter_obj.val,
                        metric_filter    |-> metric_filter_obj.val,
                        limit            |-> args.limit,
                        offset           |-> args.offset]),
                 [parsed_start |-> parsed_start.val, parsed_end |-> parsed_end.val])

HeaderNames(headers) == [i \in 1..Len(headers) |-> [name |-> headers[i].name]]

Values(cells) == [i \in 1..Len(cells) |-> cells[i].value]

FlatRows(rows) ==
    [r \in 1..Len(rows) |-> [dimensions |-> Values(rows[r].dimension_values),
                             metrics    |-> Values(rows[r].metric_values)]]

\* the handler from the response to its return
server_get_report_format(iv, response) ==
    Return(iv, json_dumps(
        [date_ranges       |-> <<[start_date |-> iv.locals.parsed_start,
                                  end_date   |-> iv.locals.parsed_end]>>,
         metrics_headers   |-> HeaderNames(response.fields.metric_headers),
         dimension_headers |-> HeaderNames(response.fields.dimension_headers),
         rows              |-> FlatRows(response.fields.rows),
         row_count         |-> response.fields.row_count,
         metadata          |-> [currency_code |-> response.fields.metadata.currency_code,
                                time_zone     |-> response.fields.metadata.time_zone]]))

---------------------------------------------------------------------------
(* reporting.py: run_report and the legacy get_report, asynchronous *)

\* run_report up to its return or to run_in_executor(run_report, request);
\* marshalled says whether the vendor's FilterExpression(...) and
\* DateRange(...) constructors took the mappings they were given
run_report_call(iv, a, marshalled) ==
    LET prefix == "Error running report: "
        metrics == NameObjects(a.metrics.v)
        dimensions == NameObjects(a.dimensions.v)
        base == [property    |-> Prefixed("properties/", a.property_id),
                 dimensions  |-> dimensions.val,
                 metrics     |-> metrics.val,
                 date_ranges |-> a.date_ranges,
                 limit       |-> a.limit,
                 offset      |-> a.offset,
                 dimension_filter |-> IF Falsy(a.dimension_filter) THEN PyNone
                                      ELSE Proto("FilterExpression", a.dimension_filter.v),
                 metric_filter    |-> IF Falsy(a.metric_filter) THEN PyNone
                                      ELSE Proto("FilterExpression", a.metric_filter.v)]
    IN  IF Falsy(analytics_client)
        THEN Return(iv, PlainDict(ErrorBody(NotInitialized)))
        ELSE IF ~dimensions.ok THEN ExceptDict(iv, prefix, dimensions.exc)
        ELSE IF ~metrics.ok THEN ExceptDict(iv, prefix, metrics.exc)
        ELSE IF ~marshalled /\ ~(Falsy(a.dimension_filter) /\ Falsy(a.metric_filter))
        THEN ExceptDict(iv, prefix, ValueError("Unknown field for message"))
        ELSE Dispatch(iv, "executor", "run_report", Proto("RunReportRequest", base),
                      iv.locals)

\* run_report from the response to its return
run_report_format(iv, response) == Return(iv, PlainDict(proto_to_dict(response)))

\* the lines of get_report after result = await run_report(...)
reporting_get_report_after(iv, result) ==
    IF Has(result.body, "error") THEN Return(iv, json_dumps(result.body))
    ELSE Return(iv, json_dumps(
             ("parsed_date_ranges" :> <<[start_date |-> iv.locals.parsed_start,
                                         end_date   |-> iv.locals.parsed_end]>>)
             @@ result.body))

\* result = await run_report(...): when run_report returned without a
\* vendor call, get_report goes on at once with the lines after the await
AwaitRunReport(frame) ==
    IF frame.pc = "done" THEN reporting_get_report_after(frame, frame.result)
    ELSE frame

\* get_report: preprocessing, then await run_report(...); the locals keep
\* the parsed dates for the lines after the await
reporting_get_report_call(args, now1, now2, marshalled) ==
    LET iv == Invocation("reporting.get_report", args)
        processed_metrics == preprocess_list_param(args.metrics)
        processed_dimensions == preprocess_list_param(args.dimensions)
        processed_dimension_filter ==
            IF Falsy(args.dimension_filter) THEN Ok(PyNone)
            ELSE preprocess_dict_param(args.dimension_filter)
        processed_metric_filter ==
            IF Falsy(args.metric_filter) THEN Ok(PyNone)
            ELSE preprocess_dict_param(args.metric_filter)
        prop_id == OrDefault(args.property_id)
        parsed_start == parse_date_string(args.start_date, now1)
        parsed_end == parse_date_string(args.end_date, now2)
        frame == [iv EXCEPT !.locals = [parsed_start |-> parsed_start.val,
                                        parsed_end   |-> parsed_end.val]]
    IN  IF ~processed_dimension_filter.ok
        THEN Propagate(iv, processed_dimension_filter.exc)
        ELSE IF ~processed_metric_filter.ok
        THEN Propagate(iv, processed_metric_filter.exc)
        ELSE IF Falsy(processed_metrics)
        THEN Return(iv, json_dumps(ErrorBody(MetricsRequired)))
        ELSE IF Falsy(prop_id)
        THEN Return(iv, json_dumps(ErrorBody(NoPropertyId)))
        ELSE IF ~parsed_start.ok THEN Propagate(iv, parsed_start.exc)
        ELSE IF ~parsed_end.ok THEN Propagate(iv, parsed_end.exc)
        ELSE AwaitRunReport(run_report_call(frame,
                 [property_id      |-> prop_id,
                  date_ranges      |-> <<[start_date |-> parsed_start.val,
                                          end_date   |-> parsed_end.val]>>,
                  dimensions       |-> IF Falsy(processed_dimensions) THEN ListV(<<>>)
                                       ELSE processed_dimensions,
                  metrics          |-> processed_metrics,
                  dimension_filter |-> processed_dimension_filter.val,
                  metric_filter    |-> processed_metric_filter.val,
                  limit            |-> args.limit,
                  offset           |-> args.offset],
                 marshalled))


---------------------------------------------------------------------------
(* realtime.py and server.py: get_realtime_data *)

\* both handlers up to their return or to run_realtime_report(request)
get_realtime_data_call(tool, via, args) ==
    LET iv == Invocation(tool, args)
        prefix == "Error getting realtime data: "
        processed_metrics == preprocess_list_param(args.metrics)
        processed_dimensions == preprocess_list_param(args.dimensions)
        prop_id == OrDefault(args.property_id)
        metric_objs == NameObjects(processed_metrics.v)
        dimension_objs == IF Falsy(processed_dimensions) THEN Ok(<<>>)
                          ELSE NameObjects(processed_dimensions.v)
    IN  IF Falsy(analytics_client)
        THEN Return(iv, json_dumps(ErrorBody(NotInitialized)))
        ELSE IF Falsy(processed_metrics)
        THEN Return(iv, json_dumps(ErrorBody(MetricsRequired)))
        ELSE IF Falsy(prop_id)
        THEN Return(iv, json_dumps(ErrorBody(NoPropertyId)))
        ELSE IF ~metric_objs.ok THEN Except(iv, prefix, metric_objs.exc)
        ELSE IF ~dimension_objs.ok THEN Except(iv, prefix, dimension_objs.exc)
        ELSE Dispatch(iv, via, "run_realtime_report",
                 Proto("RunRealtimeReportRequest",
                       [property   |-> format_property_id(prop_id),
                        metrics    |-> metric_objs.val,
                        dimensions |-> dimension_objs.val,
                        limit      |-> args.limit]),
                 EmptyDict)

realtime_get_realtime_data_format(iv, response) ==
    Return(iv, json_dumps(proto_to_dict(response)))

server_get_realtime_data_format(iv, response) ==
    Return(iv, json_dumps(
        [metrics_headers   |-> HeaderNames(response.fields.metric_headers),
         dimension_headers |-> HeaderNames(response.fields.dimension_headers),
         rows              |-> FlatRows(response.fields.rows),
         row_count         |-> response.fields.row_count]))

---------------------------------------------------------------------------
(* metadata.py, resources.py and server.py: property metadata *)

\* get_property_metadata up to its return or to get_metadata(request)
get_property_metadata_call(iv, via, property_id) ==
    IF Falsy(analytics_client)
    THEN Return(iv, json_dumps(ErrorBody(NotInitialized)))
    ELSE Dispatch(iv, via, "get_metadata",
             Proto("GetMetadataRequest",
                   [name |-> Suffixed(format_property_id(property_id), "/metadata")]),
             [property_id |-> property_id])

\* metadata.py and resources.py: proto_to_dict, then result["property_id"]
get_property_metadata_format(iv, response) ==
    Return(iv, json_dumps(("property_id" :> iv.locals.property_id)
                          @@ proto_to_dict(response)))

ApiNames(items) == [i \in 1..Len(items) |-> [api_name |-> items[i].api_name]]

\* server.py: the result is assembled field by field
server_get_property_metadata_format(iv, response) ==
    Return(iv, json_dumps([property_id |-> iv.locals.property_id,
                           metrics     |-> ApiNames(response.fields.metrics),
                           dimensions  |-> ApiNames(response.fields.dimensions)]))

\* the resources ga4://default/metadata and ga4://{property_id}/metadata
get_default_metadata_call(tool, via) ==
    LET iv == Invocation(tool, EmptyDict)
    IN  IF Falsy(default_property_id)
        THEN Return(iv, json_dumps(ErrorBody(<<"No default property ID configured">>)))
        ELSE get_property_metadata_call(iv, via, default_property_id)

get_specific_metadata_call(tool, via, args) ==
    LET iv == Invocation(tool, args)
    IN  IF Falsy(args.property_id)
        THEN Return(iv, json_dumps(ErrorBody(<<"No property ID configured">>)))
        ELSE get_property_metadata_call(iv, via, args.property_id)

\* property_id.split("/")[-1]: what follows the last "properties/"
LastSegment(property_id) ==
    LET toks == property_id.text
        cuts == {i \in 1..Len(toks) : toks[i] = TWord("properties/")}
    IN  IF cuts = {} THEN property_id
        ELSE Text(SubSeq(toks, 1 + CHOOSE i \in cuts : \A j \in cuts : j <= i, Len(toks)))

\* reporting.py: get_dimensions and get_metrics, which return a mapping
get_dimensions_call(tool, args) ==
    LET iv == Invocation(tool, args)
        property_id == IF startswith(args.property_id, "properties/")
                       THEN LastSegment(args.property_id) ELSE args.property_id
    IN  IF Falsy(analytics_client)
        THEN Return(iv, PlainDict(ErrorBody(NotInitialized)))
        ELSE Dispatch(iv, "executor", "get_metadata",
                 Suffixed(Prefixed("properties/", property_id), "/metadata"),
                 EmptyDict)

\* Metadata(name=metadata.name, dimensions=metadata.dimensions) as a dict
get_dimensions_format(iv, metadata) ==
    Return(iv, PlainDict(proto_to_dict(
        Proto("Metadata", [name |-> metadata.fields.name,
                           dimensions |-> metadata.fields.dimensions,
                           metrics |-> <<>>]))))

get_metrics_format(iv, metadata) ==
    Return(iv, PlainDict(proto_to_dict(
        Proto("Metadata", [name |-> metadata.fields.name,
                           dimensions |-> <<>>,
                           metrics |-> metadata.fields.metrics]))))

\* what GetMetadata answers: the catalogue of the property
MetadataResponses(request) ==
    {Proto("Metadata", [name       |-> "properties/123/metadata",
                        dimensions |-> [i \in 1..k |-> [api_name |-> "country"]],
                        metrics    |-> [i \in 1..k |-> [api_name |-> "activeUsers"]]])
        : k \in 0..1}

---------------------------------------------------------------------------
(* admin.py and server.py: the Admin API tools *)

BoolV(b) == [t |-> "bool", v |-> b]

\* a handler of admin.py up to its return or to run_in_executor(method, request)
admin_call(iv, method, request) ==
    IF Falsy(admin_client)
    THEN Return(iv, json_dumps(ErrorBody(AdminNotInitialized)))
    ELSE Dispatch(iv, "executor", method, request, EmptyDict)

get_account_summaries_call ==
    admin_call(Invocation("admin.get_account_summaries", EmptyDict),
               "list_account_summaries",
               Proto("ListAccountSummariesRequest", EmptyDict))

get_property_details_call(args) ==
    admin_call(Invocation("admin.get_property_details", args), "get_property",
               Proto("GetPropertyRequest",
                     [name |-> format_property_id(args.property_id)]))

list_google_ads_links_call(args) ==
    admin_call(Invocation("admin.list_google_ads_links", args), "list_google_ads_links",
               Proto("ListGoogleAdsLinksRequest",
                     [parent |-> format_property_id(args.property_id)]))

list_data_streams_call(args) ==
    admin_call(Invocation("admin.list_data_streams", args), "list_data_streams",
               Proto("ListDataStreamsRequest",
                     [parent |-> format_property_id(args.property_id)]))

\* Property(): display_name, time_zone and parent are assigned, currency_code
\* when it is truthy
PropertyObject(args) ==
    [display_name  |-> args.display_name,
     time_zone     |-> args.time_zone,
     parent        |-> format_parent_id(args.parent),
     currency_code |-> IF Falsy(args.currency_code) THEN Text(<<>>)
                       ELSE args.currency_code]

create_property_call(tool, via, args) ==
    LET iv == Invocation(tool, args)
    IN  IF Falsy(admin_client)
        THEN Return(iv, json_dumps(ErrorBody(AdminNotInitialized)))
        ELSE Dispatch(iv, via, "create_property",
                 Proto("CreatePropertyRequest", [property |-> PropertyObject(args)]),
                 EmptyDict)

create_data_stream_call(tool, via, args) ==
    LET iv == Invocation(tool, args)
    IN  IF Falsy(admin_client)
        THEN Return(iv, json_dumps(ErrorBody(AdminNotInitialized)))
        ELSE Dispatch(iv, via, "create_data_stream",
                 Proto("CreateDataStreamRequest",
                       [parent      |-> format_property_id(args.parent_property_id),
                        data_stream |-> [display_name |-> args.display_name,
                                         type_        |-> "WEB_DATA_STREAM",
                                         default_uri  |-> args.default_uri]]),
                 EmptyDict)

\* name.split('/')[-1] of a resource name "<collection>/<id>"
LastOf(name) == Text(<<name.text[Len(name.text)]>>)

\* the result get_property_details and create_property assemble
PropertyResult(response) ==
    [property_id   |-> LastOf(response.fields.name),
     resource_name |-> response.fields.name,
     display_name  |-> response.fields.display_name,
     time_zone     |-> response.fields.time_zone,
     currency_code |-> response.fields.currency_code,
     parent        |-> response.fields.parent]

property_format(iv, response) == Return(iv, json_dumps(PropertyResult(response)))

create_data_stream_format(iv, response) ==
    Return(iv, json_dumps(
        [data_stream_id  |-> LastOf(response.fields.name),
         resource_name   |-> response.fields.name,
         display_name    |-> response.fields.display_name,
         type            |-> response.fields.type_,
         web_stream_data |-> [default_uri |-> response.fields.default_uri]]))

\* get_account_summaries: one entry per account of the pager, in its order
get_account_summaries_format(iv, page_result) ==
    Return(iv, json_dumps(
        [account_summaries |->
            [i \in 1..Len(page_result.fields.items) |->
                [account    |-> page_result.fields.items[i].account,
                 account_id |-> LastOf(page_result.fields.items[i].account)]],
         total_accounts |-> Len(page_result.fields.items)]))

\* list_google_ads_links and list_data_streams: one entry per item
list_format(iv, page_result, key, total) ==
    Return(iv, json_dumps(
        (key :> [i \in 1..Len(page_result.fields.items) |->
                    [name |-> page_result.fields.items[i].name]])
        @@ (total :> Len(page_result.fields.items))
        @@ [property_id |-> iv.args.property_id]))

AccountsPath == Text(<<TWord("accounts/"), TNum(7)>>)

PropertyPath == Text(<<TWord("properties/"), TNum(123)>>)

StreamPath == Text(<<TWord("properties/"), TNum(123), TWord("/dataStreams/"), TNum(9)>>)

\* what the Admin API answers to a request
AdminResponses(request) ==
    CASE request.method \in {"get_property", "create_property"} ->
            {Proto("Property",
                   [name          |-> PropertyPath,
                    display_name  |-> Text(<<TWord("Site")>>),
                    time_zone     |-> Text(<<TWord("UTC")>>),
                    currency_code |-> Text(<<TWord("USD")>>),
                    parent        |-> AccountsPath])}
      [] request.method = "create_data_stream" ->
            {Proto("DataStream",
                   [name         |-> StreamPath,
                    display_name |-> request.request.fields.data_stream.display_name,
                    type_        |-> request.request.fields.data_stream.type_,
                    default_uri  |-> request.request.fields.data_stream.default_uri])}
      [] request.method = "list_account_summaries" ->
            {Proto("Pager", [items |-> [i \in 1..k |-> [account |-> AccountsPath]]])
                : k \in 0..1}
      [] request.method \in {"list_google_ads_links", "list_data_streams", "list_properties"} ->
            {Proto("Pager", [items |-> [i \in 1..k |-> [name |-> StreamPath]]])
                : k \in 0..1}

---------------------------------------------------------------------------
(* admin.py: update_enhanced_measurement_settings *)

\* the ten optional settings, in the order the handler tests them
FieldOrder ==
    <<"stream_enabled", "scrolls_enabled", "outbound_clicks_enabled",
      "site_search_enabled", "video_engagement_enabled", "file_downloads_enabled",
      "page_changes_enabled", "form_interactions_enabled",
      "search_query_parameter", "uri_query_parameter">>

FieldNames == {FieldOrder[i] : i \in 1..Len(FieldOrder)}

\* an update_fields that lists every setting, given or not
UpdateFieldsAll(args) == FieldOrder

\* an update_fields that tests "if x:" and so drops False and ""
UpdateFieldsTruthy(args) ==
    SelectSeq(FieldOrder, LAMBDA f : args[f] \notin {PyNone, BoolV(FALSE), Text(<<>>)})

\* update_fields after the ten "if x is not None" blocks
UpdateFields(args) == SelectSeq(FieldOrder, LAMBDA f : args[f] # PyNone)

\* f"properties/{property_id}/dataStreams/{data_stream_id}/enhancedMeasurementSettings"
SettingsName(property_id, data_stream_id) ==
    Text(<<TWord("properties/")>> \o property_id.text \o <<TWord("/dataStreams/")>>
         \o data_stream_id.text \o <<TWord("/enhancedMeasurementSettings")>>)

\* EnhancedMeasurementSettings(): name, and each setting that was given
SettingsObject(args) ==
    ("name" :> SettingsName(args.property_id, args.data_stream_id))
    @@ [f \in {g \in FieldNames : args[g] # PyNone} |-> args[f]]

\* the handler up to its return or to the executor call
update_enhanced_measurement_settings_call(args) ==
    LET iv == Invocation("admin.update_enhanced_measurement_settings", args)
        update_fields == UpdateFields(args)
    IN  IF Falsy(admin_client)
        THEN Return(iv, json_dumps(ErrorBody(AdminNotInitialized)))
        ELSE IF update_fields = <<>>
        THEN Return(iv, json_dumps(ErrorBody(<<"No fields provided to update">>)))
        ELSE Dispatch(iv, "executor", "update_enhanced_measurement_settings",
                 Proto("UpdateEnhancedMeasurementSettingsRequest",
                       [enhanced_measurement_settings |-> SettingsObject(args),
                        update_mask |-> [paths |-> update_fields]]),
                 [update_fields |-> update_fields])

\* the handler from the response to its return
update_enhanced_measurement_settings_format(iv, response) ==
    Return(iv, json_dumps(
        [name           |-> response.fields.name,
         property_id    |-> iv.args.property_id,
         data_stream_id |-> iv.args.data_stream_id,
         updated_fields |-> iv.locals.update_fields]
        @@ [f \in FieldNames |-> response.fields[f]]))

\* what UpdateEnhancedMeasurementSettings answers: the settings after the
\* update, the ones the request left out at their defaults
SettingsResponses(request) ==
    {Proto("EnhancedMeasurementSettings",
           request.request.fields.enhanced_measurement_settings
           @@ [f \in {"search_query_parameter", "uri_query_parameter"} |-> Text(<<>>)]
           @@ [f \in FieldNames |-> BoolV(FALSE)])}

---------------------------------------------------------------------------
(* resources.py and server.py: ga4://properties/list *)

get_properties_list_call(tool, via) ==
    LET iv == Invocation(tool, EmptyDict)
    IN  IF Falsy(admin_client)
        THEN Return(iv, json_dumps(ErrorBody(NotInitialized)))
        ELSE Dispatch(iv, via, "list_account_summaries",
                      Proto("ListAccountSummariesRequest", EmptyDict), EmptyDict)

get_properties_list_format(iv, page_result) ==
    Return(iv, json_dumps(
        [properties |->
            [i \in 1..Len(page_result.fields.items) |->
                [account_id            |-> LastOf(page_result.fields.items[i].account),
                 account_resource_name |-> page_result.fields.items[i].account]],
         total_count |-> Len(page_result.fields.items)]))

---------------------------------------------------------------------------
(* The vendor's side of a call, and the handler's lines after it *)

\* the responses the vendor can give to the pending request
VendorResponses(request) ==
    CASE request.method = "run_report" ->
            ReportResponses("RunReportResponse", request.request)
      [] request.method = "run_realtime_report" ->
            ReportResponses("RunRealtimeReportResponse", request.request)
      [] request.method = "get_metadata" -> MetadataResponses(request.request)
      [] request.method = "update_enhanced_measurement_settings" ->
            SettingsResponses(request)
      [] OTHER -> AdminResponses(request)

\* the handler's lines from the response to its return
OnResponse(iv, response) ==
    CASE iv.tool = "server.get_report" -> server_get_report_format(iv, response)
      [] iv.tool = "server.get_realtime_data" -> server_get_realtime_data_format(iv, response)
      [] iv.tool = "realtime.get_realtime_data" -> realtime_get_realtime_data_format(iv, response)
      [] iv.tool = "reporting.run_report" -> run_report_format(iv, response)
      [] iv.tool = "reporting.get_report" ->
            reporting_get_report_after(iv, run_report_format(iv, response).result)
      [] iv.tool = "reporting.get_dimensions" -> get_dimensions_format(iv, response)
      [] iv.tool = "reporting.get_metrics" -> get_metrics_format(iv, response)
      [] iv.tool \in {"server.get_metadata_tool", "server.get_default_metadata",
                      "server.get_specific_metadata"} ->
            server_get_property_metadata_format(iv, response)
      [] iv.tool \in {"metadata.get_metadata_tool", "resources.get_default_metadata",
                      "resources.get_specific_metadata"} ->
            get_property_metadata_format(iv, response)
      [] iv.tool \in {"server.get_properties_list", "resources.get_properties_list"} ->
            get_properties_list_format(iv, response)
      [] iv.tool = "admin.get_account_summaries" -> get_account_summaries_format(iv, response)
      [] iv.tool \in {"admin.get_property_details", "admin.create_property",
                      "server.create_property"} -> property_format(iv, response)
      [] iv.tool \in {"admin.create_data_stream", "server.create_data_stream"} ->
            create_data_stream_format(iv, response)
      [] iv.tool = "admin.list_google_ads_links" ->
            list_format(iv, response, "google_ads_links", "total_links")
      [] iv.tool = "admin.list_data_streams" ->
            list_format(iv, response, "data_streams", "total_streams")
      [] iv.tool = "admin.update_enhanced_measurement_settings" ->
            update_enhanced_measurement_settings_format(iv, response)

\* a handler that answers a failed vendor call by calling the vendor again
OnErrorRetry(iv, e) ==
    IF iv.calls < 2
    THEN Dispatch(iv, iv.request.via, iv.request.method, iv.request.request, iv.locals)
    ELSE Except(iv, "Error: ", e)

\* the except clauses around the vendor call of each handler
OnError(iv, e) ==
    CASE iv.tool = "server.get_report" -> ExceptGoogle(iv, "Error getting report: ", e)
      [] iv.tool \in {"server.get_realtime_data", "realtime.get_realtime_data"} ->
            ExceptGoogle(iv, "Error getting realtime data: ", e)
      [] iv.tool = "reporting.run_report" -> ExceptDict(iv, "Error running report: ", e)
      [] iv.tool = "reporting.get_report" ->
            reporting_get_report_after(iv,
                ExceptDict(iv, "Error running report: ", e).result)
      [] iv.tool = "reporting.get_dimensions" -> ExceptDict(iv, "Error getting dimensions: ", e)
      [] iv.tool = "reporting.get_metrics" -> ExceptDict(iv, "Error getting metrics: ", e)
      [] iv.tool \in {"server.get_metadata_tool", "server.get_default_metadata",
                      "server.get_specific_metadata", "metadata.get_metadata_tool"} ->
            ExceptGoogle(iv, "Error getting metadata: ", e)
      [] iv.tool \in {"resources.get_default_metadata", "resources.get_specific_metadata"} ->
            Except(iv, "Error getting metadata: ", e)
      [] iv.tool \in {"server.get_properties_list", "resources.get_properties_list"} ->
            Except(iv, "Failed to list GA4 properties: ", e)
      [] iv.tool = "admin.get_account_summaries" ->
            Except(iv, "Error getting account summaries: ", e)
      [] iv.tool = "admin.get_property_details" ->
            Except(iv, "Error getting property details: ", e)
      [] iv.tool = "admin.list_google_ads_links" ->
            Except(iv, "Error listing Google Ads links: ", e)
      [] iv.tool = "admin.list_data_streams" ->
            Except(iv, "Error listing data streams: ", e)
      [] iv.tool = "admin.create_property" -> Except(iv, "Error creating property: ", e)
      [] iv.tool = "server.create_property" ->
            ExceptGoogle(iv, "Error creating property: ", e)
      [] iv.tool = "admin.create_data_stream" -> Except(iv, "Error creating data stream: ", e)
      [] iv.tool = "server.create_data_stream" ->
            ExceptGoogle(iv, "Error creating data stream: ", e)
      [] iv.tool = "admin.update_enhanced_measurement_settings" ->
            Except(iv, "Error updating enhanced measurement settings: ", e)

\* a handler that calls the vendor directly runs through the call: the frame
\* after the vendor answered (answer is Ok(response) or Raise(error))
Through(frame, answer) ==
    LET answered == [frame EXCEPT !.answer = answer]
    IN  IF frame.pc # "await" THEN frame
        ELSE IF answer.ok THEN OnResponse(answered, answer.val)
        ELSE OnError(answered, answer.exc)

\* the answers the vendor can give to the request a frame is waiting on
Answers(frame) ==
    IF frame.pc # "await" THEN {Ok(PyNone)}
    ELSE {Ok(r) : r \in VendorResponses(frame.request)} \cup {Raise(e) : e \in VendorErrors}

---------------------------------------------------------------------------
(* initialize_client and main *)

\* initialize_client(): the globals after it and whether it raised.  env is
\* the three environment variables; built says how far the vendor's
\* constructors got: "none" (the credentials were rejected), "data" (the
\* data client was built, the admin client's constructor raised) or "both"
initialize_client(env, built) ==
    IF Falsy(env.client_email) \/ Falsy(env.private_key) \/ Falsy(env.property_id)
        \/ built = "none"
    THEN [analytics_client |-> analytics_client, admin_client |-> admin_client,
          default_property_id |-> default_property_id, raised |-> TRUE]
    ELSE IF built = "data"
    THEN [analytics_client |-> DataClient, admin_client |-> admin_client,
          default_property_id |-> default_property_id, raised |-> TRUE]
    ELSE [analytics_client |-> DataClient, admin_client |-> AdminClient,
          default_property_id |-> env.property_id, raised |-> FALSE]

---------------------------------------------------------------------------
(* The arguments the tools are called with *)

Name(w) == Text(<<TWord(w)>>)

PropertyIds == {Text(<<TNum(123)>>), PropertyPath}

OptPropertyIds == PropertyIds \cup {PyNone}

\* os.getenv of the three variables: set, empty, or absent
Environments ==
    [client_email : {Name("sa@x.iam"), PyNone},
     private_key  : {Name("key"), Text(<<>>)},
     property_id  : PropertyIds \cup {PyNone}]

\* metrics as a list, as the JSON text of a list, as a bare name, and missing
MetricsInputs ==
    {ListV(<<Name("activeUsers")>>),
     Text(<<Tok("["), TStr(Name("activeUsers")), Tok("]")>>),
     Name("activeUsers"),
     ListV(<<>>),
     PyNone}

DimensionsInputs == {PyNone, ListV(<<Name("country")>>)}

StartDates == {Text(<<TNum(7), TWord("daysAgo")>>), Name("yesterday")}

EndDates == {Name("today")}

\* the days datetime.now() falls on at the two calls of parse_date_string
Clock == {<<100, 100>>, <<100, 101>>}

GoodFilter ==
    [filter |-> [field_name |-> "country",
                 string_filter |-> [match_type |-> "EXACT", value |-> "US"]]]

\* GoodFilter with its keys in camelCase
CamelFilter ==
    [filter |-> [fieldName |-> "country",
                 stringFilter |-> [matchType |-> "EXACT", value |-> "US"]]]

\* a group whose second child names no match type of the vendor
BadFilter == [and_group |-> [expressions |-> <<GoodFilter, LeafBad>>]]

\* the JSON text of {"filter": {"field_name": "country"}}
FilterJson ==
    Text(<<Tok("{"), TStr("filter"), Tok(":"),
           Tok("{"), TStr("field_name"), Tok(":"), TStr("country"), Tok("}"), Tok("}")>>)

\* a filter argument: missing, a mapping, one with camelCase keys, JSON
\* text of a mapping, text that is no JSON, and JSON text of a value that is
\* no mapping
FilterInputs ==
    {PyNone, DictV(GoodFilter), DictV(BadFilter), DictV(CamelFilter), FilterJson,
     Name("not json"), Text(<<Tok("["), TNum(1), Tok("]")>>)}

MetricFilterInputs == {PyNone, DictV(BadFilter)}

GetReportArgs ==
    [metrics : MetricsInputs, dimensions : DimensionsInputs,
     start_date : StartDates, end_date : EndDates,
     dimension_filter : FilterInputs, metric_filter : MetricFilterInputs,
     property_id : OptPropertyIds, limit : {PyNone}, offset : {PyNone}]

RealtimeArgs ==
    [metrics : MetricsInputs, dimensions : DimensionsInputs,
     property_id : OptPropertyIds, limit : {PyNone}]

RunReportArgs ==
    [property_id : PropertyIds,
     date_ranges : {<<[start_date |-> Name("yesterday"), end_date |-> Name("today")]>>},
     dimensions : {ListV(<<>>), ListV(<<Name("country")>>)},
     metrics : {ListV(<<Name("activeUsers")>>)},
     dimension_filter : {PyNone, DictV(GoodFilter)}, metric_filter : {PyNone},
     limit : {PyNone}, offset : {PyNone}]

PropertyArgs == [property_id : PropertyIds]

SpecificArgs == [property_id : PropertyIds \cup {Text(<<>>)}]

CreatePropertyArgs ==
    [display_name : {Name("Site")}, time_zone : {Name("UTC")},
     parent : {AccountsPath, Text(<<TNum(7)>>)},
     currency_code : {PyNone, Name("USD")}]

CreateDataStreamArgs ==
    [parent_property_id : PropertyIds, display_name : {Name("Web")},
     default_uri : {Name("https://example.com")}]

MaxSupplied == 2    \* most settings one call supplies

SettingValues(f) ==
    IF f \in {"search_query_parameter", "uri_query_parameter"}
    THEN {Text(<<>>), Name("q")}
    ELSE {BoolV(TRUE), BoolV(FALSE)}

\* the settings of a call: at most MaxSupplied of the ten, the others None
SettingsInputs ==
    UNION {{[f \in FieldNames |-> IF f \in S THEN g[f] ELSE PyNone]
               : g \in {h \in [S -> UNION {SettingValues(f) : f \in S}]
                           : \A f \in S : h[f] \in SettingValues(f)}}
              : S \in {T \in SUBSET FieldNames : Cardinality(T) <= MaxSupplied}}

UpdateArgs ==
    {[property_id |-> p, data_stream_id |-> Text(<<TNum(9)>>)] @@ st
        : p \in PropertyIds, st \in SettingsInputs}

---------------------------------------------------------------------------
(* Actions *)

globals == <<analytics_client, admin_client, default_property_id>>

harness == <<fn, arg, out>>

\* a tool can be invoked: the module is loaded (before or after main()
\* initialised it) and the previous invocation has been answered
Callable == main_pc \in {"start", "serving"} /\ inv.pc = "idle"

\* a handler that calls the vendor on the event loop's thread: it runs from
\* its first line to its return, the vendor's answer included
Run(frame) ==
    /\ \E f \in {frame} : \E answer \in Answers(f) : inv' = Through(f, answer)
    /\ UNCHANGED <<globals, main_pc, harness, tasks>>

\* a handler that keeps the property ID it was called with as the default
StartAdoptsProperty(frame) ==
    /\ \E f \in {frame} :
          /\ inv' = f
          /\ default_property_id' =
                IF "property_id" \in DOMAIN f.args /\ ~Falsy(f.args.property_id)
                THEN f.args.property_id ELSE default_property_id
    /\ UNCHANGED <<analytics_client, admin_client, main_pc, harness, tasks>>

\* a handler that awaits the executor: it runs to its return, or to the await
Start(frame) ==
    /\ \E f \in {frame} : inv' = f
    /\ UNCHANGED <<globals, main_pc, harness, tasks>>

\* a main() that logs the exception of initialize_client and runs the server
MainServesAnyway ==
    /\ main_pc = "start"
    /\ inv.pc = "idle"
    /\ \E env \in Environments, built \in {"none", "data", "both"} :
          LET r == initialize_client(env, built)
          IN  /\ analytics_client' = r.analytics_client
              /\ admin_client' = r.admin_client
              /\ default_property_id' = r.default_property_id
              /\ main_pc' = "serving"
    /\ UNCHANGED <<inv, harness, tasks>>

\* main(): initialize_client(), then mcp.run(); an exception of
\* initialize_client is raised again and ends the process
Main ==
    /\ main_pc = "start"
    /\ inv.pc = "idle"
    /\ \E env \in Environments, built \in {"none", "data", "both"} :
          LET r == initialize_client(env, built)
          IN  /\ analytics_client' = r.analytics_client
              /\ admin_client' = r.admin_client
              /\ default_property_id' = r.default_property_id
              /\ main_pc' = IF r.raised THEN "exited" ELSE "serving"
    /\ UNCHANGED <<inv, harness, tasks>>

\* mcp.run() returns or KeyboardInterrupt ends it
ServerStops ==
    /\ main_pc = "serving"
    /\ inv.pc = "idle"
    /\ main_pc' = "exited"
    /\ UNCHANGED <<globals, inv, harness, tasks>>

\* server.py: get_report
ServerGetReport ==
    /\ Callable
    /\ \E args \in GetReportArgs, now \in Clock :
           Run(server_get_report_call(args, now[1], now[2]))

\* server.py: get_realtime_data
ServerGetRealtimeData ==
    /\ Callable
    /\ \E args \in RealtimeArgs :
           Run(get_realtime_data_call("server.get_realtime_data", "direct", args))

\* server.py: get_metadata_tool
ServerGetMetadataTool ==
    /\ Callable
    /\ \E args \in PropertyArgs :
           Run(get_property_metadata_call(Invocation("server.get_metadata_tool", args),
                                          "direct", args.property_id))

\* server.py: the resource ga4://default/metadata
ServerGetDefaultMetadata ==
    /\ Callable
    /\ Run(get_default_metadata_call("server.get_default_metadata", "direct"))

\* server.py: the resource ga4://{property_id}/metadata
ServerGetSpecificMetadata ==
    /\ Callable
    /\ \E args \in SpecificArgs :
           Run(get_specific_metadata_call("server.get_specific_metadata", "direct", args))

\* server.py: the resource ga4://properties/list
ServerGetPropertiesList ==
    /\ Callable
    /\ Run(get_properties_list_call("server.get_properties_list", "direct"))

\* server.py: create_property
ServerCreateProperty ==
    /\ Callable
    /\ \E args \in CreatePropertyArgs :
           Run(create_property_call("server.create_property", "direct", args))

\* server.py: create_data_stream
ServerCreateDataStream ==
    /\ Callable
    /\ \E args \in CreateDataStreamArgs :
           Run(create_data_stream_call("server.create_data_stream", "direct", args))

\* reporting.py: get_dimensions
GetDimensions ==
    /\ Callable
    /\ \E args \in PropertyArgs :
           Start(get_dimensions_call("reporting.get_dimensions", args))

\* reporting.py: get_metrics
GetMetrics ==
    /\ Callable
    /\ \E args \in PropertyArgs :
           Start(get_dimensions_call("reporting.get_metrics", args))

\* reporting.py: run_report
RunReport ==
    /\ Callable
    /\ \E args \in RunReportArgs, marshalled \in BOOLEAN :
           Start(run_report_call(Invocation("reporting.run_report", args), args, marshalled))

\* reporting.py: get_report
GetReport ==
    /\ Callable
    /\ \E args \in GetReportArgs, now \in Clock, marshalled \in BOOLEAN :
           Start(reporting_get_report_call(args, now[1], now[2], marshalled))

\* realtime.py: get_realtime_data
GetRealtimeData ==
    /\ Callable
    /\ \E args \in RealtimeArgs :
           Start(get_realtime_data_call("realtime.get_realtime_data", "executor", args))

\* metadata.py: get_metadata_tool
GetMetadataTool ==
    /\ Callable
    /\ \E args \in PropertyArgs :
           Start(get_property_metadata_call(Invocation("metadata.get_metadata_tool", args),
                                            "executor", args.property_id))

\* resources.py: the resource ga4://default/metadata
GetDefaultMetadata ==
    /\ Callable
    /\ Start(get_default_metadata_call("resources.get_default_metadata", "executor"))

\* resources.py: the resource ga4://{property_id}/metadata
GetSpecificMetadata ==
    /\ Callable
    /\ \E args \in SpecificArgs :
           Start(get_specific_metadata_call("resources.get_specific_metadata", "executor", args))

\* resources.py: the resource ga4://properties/list
GetPropertiesList ==
    /\ Callable
    /\ Start(get_properties_list_call("resources.get_properties_list", "executor"))

\* admin.py: get_account_summaries
GetAccountSummaries ==
    /\ Callable
    /\ Start(get_account_summaries_call)

\* admin.py: get_property_details
GetPropertyDetails ==
    /\ Callable
    /\ \E args \in PropertyArgs : Start(get_property_details_call(args))

\* admin.py: list_google_ads_links
ListGoogleAdsLinks ==
    /\ Callable
    /\ \E args \in PropertyArgs : Start(list_google_ads_links_call(args))

\* admin.py: list_data_streams
ListDataStreams ==
    /\ Callable
    /\ \E args \in PropertyArgs : Start(list_data_streams_call(args))

\* admin.py: create_property
CreateProperty ==
    /\ Callable
    /\ \E args \in CreatePropertyArgs :
           Start(create_property_call("admin.create_property", "executor", args))

\* admin.py: create_data_stream
CreateDataStream ==
    /\ Callable
    /\ \E args \in CreateDataStreamArgs :
           Start(create_data_stream_call("admin.create_data_stream", "executor", args))

\* admin.py: update_enhanced_measurement_settings
UpdateEnhancedMeasurementSettings ==
    /\ Callable
    /\ \E args \in UpdateArgs : Start(update_enhanced_measurement_settings_call(args))

\* the executor's thread finished the vendor call with a response
VendorReturns ==
    /\ inv.pc = "await"
    /\ \E response \in VendorResponses(inv.request) : inv' = Through(inv, Ok(response))
    /\ UNCHANGED <<globals, main_pc, harness, tasks>>

\* the executor's thread finished the vendor call with an exception
VendorRaises ==
    /\ inv.pc = "await"
    /\ \E e \in VendorErrors : inv' = Through(inv, Raise(e))
    /\ UNCHANGED <<globals, main_pc, harness, tasks>>

\* the caller receives what the handler returned or raised
Deliver ==
    /\ inv.pc \in {"done", "raised"}
    /\ inv' = Idle
    /\ UNCHANGED <<globals, main_pc, harness, tasks>>

Init ==
    /\ analytics_client = PyNone
    /\ admin_client = PyNone
    /\ default_property_id = PyNone
    /\ main_pc = "start"
    /\ inv = Idle
    /\ fn = "none"
    /\ arg = PyNone
    /\ out = Pending
    /\ tasks = NoTasks

Next ==
    \/ Main
    \/ ServerStops
    \/ ServerGetReport
    \/ ServerGetRealtimeData
    \/ ServerGetMetadataTool
    \/ ServerGetDefaultMetadata
    \/ ServerGetSpecificMetadata
    \/ ServerGetPropertiesList
    \/ ServerCreateProperty
    \/ ServerCreateDataStream
    \/ GetDimensions
    \/ GetMetrics
    \/ RunReport
    \/ GetReport
    \/ GetRealtimeData
    \/ GetMetadataTool
    \/ GetDefaultMetadata
    \/ GetSpecificMetadata
    \/ GetPropertiesList
    \/ GetAccountSummaries
    \/ GetPropertyDetails
    \/ ListGoogleAdsLinks
    \/ ListDataStreams
    \/ CreateProperty
    \/ CreateDataStream
    \/ UpdateEnhancedMeasurementSettings
    \/ VendorReturns
    \/ VendorRaises
    \/ Deliver

Spec == Init /\ [][Next]_vars

\* Spec with the scheduling the vendor and the event loop give: a dispatched
\* vendor call is answered (it returns or raises), and a handler that has
\* ended is taken off the loop
SpecLive ==
    /\ Spec
    /\ WF_vars(VendorReturns \/ VendorRaises)
    /\ WF_vars(Deliver)

---------------------------------------------------------------------------
(* The filter builder on its own: every bounded configuration is built     *)
(* once, and is once the dimension_filter of a get_report of server.py on  *)
(* an initialised server                                                   *)

InitPure ==
    /\ analytics_client = DataClient
    /\ admin_client = AdminClient
    /\ default_property_id = Text(<<TNum(123)>>)
    /\ main_pc = "serving"
    /\ inv = Idle
    /\ fn = "build_filter_expression"
    /\ arg \in FilterConfigs
    /\ out = Pending
    /\ tasks = NoTasks

FilterArgs(config) ==
    [metrics |-> ListV(<<Name("activeUsers")>>), dimensions |-> PyNone,
     start_date |-> Name("yesterday"), end_date |-> Name("today"),
     dimension_filter |-> DictV(config), metric_filter |-> PyNone,
     property_id |-> PyNone, limit |-> PyNone, offset |-> PyNone]

\* out = build_filter_expression(arg)
ApplyBuild ==
    /\ fn = "build_filter_expression"
    /\ out = Pending
    /\ out' = build_filter_expression(arg)
    /\ UNCHANGED <<globals, main_pc, inv, fn, arg, tasks>>

\* get_report(metrics=["activeUsers"], dimension_filter=arg)
ReportWithFilter ==
    /\ inv.pc = "idle"
    /\ Run(server_get_report_call(FilterArgs(arg), 100, 100))

NextPure == ApplyBuild \/ ReportWithFilter

SpecPure == InitPure /\ [][NextPure]_vars

---------------------------------------------------------------------------
(* The helper functions of utils.py and server.py on their own: each is    *)
(* applied once to each of its bounded inputs.  An input of a              *)
(* preprocessing function comes with the value it is built from (expect),  *)
(* so that the function is compared with the construction of its input.    *)

MaxTokens == 3    \* most tokens of a resource id
MaxItems == 2     \* most elements of a list argument, most members of a mapping

\* resource ids: "", "123", "properties/123", "accounts/7", "x", "properties/", ...
ResourceIds ==
    {Text(toks) : toks \in SeqsUpTo({TWord("properties/"), TWord("accounts/"),
                                     TNum(123), TWord("x")}, MaxTokens)}

\* the tokens of JSON scalars, and the value each denotes
Atoms == {TStr(Name("activeUsers")), TStr(Name("country")), TNum(1), [k |-> "null"]}

AtomValue(tok) == IF tok.k = "null" THEN PyNone ELSE tok.val

RECURSIVE Commas(_)
\* the tokens of a sequence of token groups, "," between them
Commas(groups) ==
    IF groups = <<>> THEN <<>>
    ELSE IF Len(groups) = 1 THEN groups[1]
    ELSE groups[1] \o <<Tok(",")>> \o Commas(Tail(groups))

\* the JSON text of an array of atoms
ArrayText(atoms) ==
    Text(<<Tok("[")>> \o Commas([i \in 1..Len(atoms) |-> <<atoms[i]>>]) \o <<Tok("]")>>)

MemberKeys == <<"filter", "and_group", "limit">>

\* the JSON text of an object, keys (indexes of MemberKeys) and atoms in step
ObjectText(keys, atoms) ==
    Text(<<Tok("{")>>
         \o Commas([i \in 1..Len(keys) |->
                       <<TStr(MemberKeys[keys[i]]), Tok(":"), atoms[i]>>])
         \o <<Tok("}")>>)

\* the mapping ObjectText(keys, atoms) denotes
ObjectValue(keys, atoms) ==
    [k \in {MemberKeys[keys[i]] : i \in 1..Len(keys)} |->
        AtomValue(atoms[CHOOSE i \in 1..Len(keys) : MemberKeys[keys[i]] = k])]

\* increasing index sequences: objects without a repeated key
KeySeqs ==
    {ks \in SeqsUpTo(1..Len(MemberKeys), MaxItems) :
        \A i, j \in 1..Len(ks) : i < j => ks[i] < ks[j]}

\* text that is no JSON: a bare name, names with a comma, the empty str, an
\* array cut short, an array with something after it, a lone comma in
\* brackets, an object without a value
NotJson ==
    {Name("activeUsers"),
     Text(<<TWord("activeUsers"), Tok(","), TWord("sessions")>>),
     Text(<<>>),
     Text(<<Tok("["), TStr(Name("activeUsers"))>>),
     Text(<<Tok("["), TStr(Name("activeUsers")), Tok("]"), TWord("x")>>),
     Text(<<Tok("["), Tok(","), Tok("]")>>),
     Text(<<Tok("{"), TStr("filter"), Tok(":"), Tok("}")>>)}

\* JSON text of a scalar
ScalarJson == {Text(<<a>>) : a \in Atoms}

ArrayCases ==
    {[kind |-> "array", param |-> ArrayText(atoms),
      expect |-> ListV([i \in 1..Len(atoms) |-> AtomValue(atoms[i])])]
        : atoms \in SeqsUpTo(Atoms, MaxItems)}
    \cup {[kind |-> "array",
           param |-> Text(<<Tok("["), Tok("["), TNum(1), Tok("]"), Tok("]")>>),
           expect |-> ListV(<< <<IntV(1)>> >>)]}

ObjectCases ==
    UNION {{[kind |-> "object", param |-> ObjectText(ks, atoms),
             expect |-> DictV(ObjectValue(ks, atoms))]
               : atoms \in [1..Len(ks) -> Atoms]}
              : ks \in KeySeqs}

\* the inputs of preprocess_list_param: None, a list, a str
ListCases ==
    {[kind |-> "None", param |-> PyNone, expect |-> PyNone]}
    \cup {[kind |-> "list", param |-> ListV(items), expect |-> ListV(items)]
             : items \in SeqsUpTo({Name("activeUsers"), Name("sessions")}, MaxItems)}
    \cup ArrayCases
    \cup {[kind |-> "not json", param |-> s, expect |-> ListV(<<s>>)] : s \in NotJson}
    \cup {[kind |-> "no array", param |-> s, expect |-> ListV(<<s>>)]
             : s \in ScalarJson \cup {c.param : c \in ObjectCases}}

\* the inputs of preprocess_dict_param: None, a dict, a str
DictCases ==
    {[kind |-> "None", param |-> PyNone, expect |-> Ok(PyNone)]}
    \cup {[kind |-> "dict", param |-> DictV(d), expect |-> Ok(DictV(d))]
             : d \in {EmptyDict, GoodFilter, BadFilter}}
    \cup {[kind |-> "object", param |-> c.param, expect |-> Ok(c.expect)]
             : c \in ObjectCases}
    \cup {[kind |-> "not json", param |-> s, expect |-> Raise("ValueError")]
             : s \in NotJson}
    \cup {[kind |-> "no object", param |-> s, expect |-> Raise("ValueError")]
             : s \in ScalarJson \cup {c.param : c \in ArrayCases}}


\* the shapes of a filter: what it holds, whatever the spelling of its keys
LeafShapes ==
    {[node |-> "string", match |-> m, cased |-> c]
        : m \in {"EXACT", "CONTAINS"}, c \in BOOLEAN}
    \cup {[node |-> "numeric", member |-> v] : v \in {"int64", "double"}}
    \cup {[node |-> "between"], [node |-> "in_list"]}

RECURSIVE Shapes(_)
Shapes(depth) ==
    IF depth = 0 THEN LeafShapes
    ELSE LET sub == Shapes(depth - 1)
             leaf == [node |-> "in_list"]
         IN  sub
             \cup {[node |-> "and", children |-> <<t>>] : t \in sub}
             \cup {[node |-> "and", children |-> <<leaf, t>>] : t \in sub}
             \cup {[node |-> "or", children |-> <<t, leaf>>] : t \in sub}
             \cup {[node |-> "not", child |-> t] : t \in sub}

\* a key in one of its two spellings
Key(style, camel, snake) == IF style = "camel" THEN camel ELSE snake

\* {"int64Value": 100} or {"doubleValue": 5}, in a spelling
NumericShape(member, style) ==
    IF member = "int64" THEN DictV(Key(style, "int64Value", "int64_value") :> IntV(100))
    ELSE DictV(Key(style, "doubleValue", "double_value") :> IntV(5))

\* {"filter": {fieldName: ..., predicate: ...}}, in a spelling
LeafOf(style, field, key, predicate) ==
    DictV("filter" :> DictV((Key(style, "fieldName", "field_name") :> Name(field))
                            @@ (key :> DictV(predicate))))

RECURSIVE Render(_, _)
\* the filter dictionary of a shape with its keys in camelCase or snake_case
Render(shape, style) ==
    CASE shape.node = "string" ->
            LeafOf(style, "country", Key(style, "stringFilter", "string_filter"),
                (Key(style, "matchType", "match_type") :> Name(shape.match))
                @@ ("value" :> Name("US"))
                @@ (IF shape.cased
                    THEN Key(style, "caseSensitive", "case_sensitive") :> BoolV(TRUE)
                    ELSE EmptyDict))
      [] shape.node = "numeric" ->
            LeafOf(style, "activeUsers", Key(style, "numericFilter", "numeric_filter"),
                ("operation" :> Name("EQUAL"))
                @@ ("value" :> NumericShape(shape.member, style)))
      [] shape.node = "between" ->
            LeafOf(style, "activeUsers", Key(style, "betweenFilter", "between_filter"),
                (Key(style, "fromValue", "from_value") :> NumericShape("int64", style))
                @@ (Key(style, "toValue", "to_value") :> NumericShape("double", style)))
      [] shape.node = "in_list" ->
            LeafOf(style, "country", Key(style, "inListFilter", "in_list_filter"),
                ("values" :> ListV(<<Name("US"), Name("DE")>>))
                @@ (Key(style, "caseSensitive", "case_sensitive") :> BoolV(FALSE)))
      [] shape.node = "and" ->
            DictV(Key(style, "andGroup", "and_group") :>
                  DictV("expressions" :>
                        ListV([i \in 1..Len(shape.children) |->
                                  Render(shape.children[i], style)])))
      [] shape.node = "or" ->
            DictV(Key(style, "orGroup", "or_group") :>
                  DictV("expressions" :>
                        ListV([i \in 1..Len(shape.children) |->
                                  Render(shape.children[i], style)])))
      [] shape.node = "not" ->
            DictV(Key(style, "notExpression", "not_expression") :>
                  Render(shape.child, style))

\* the inputs of normalize_filter_keys: a filter with camelCase keys, one
\* with snake_case keys already, and values that are no mapping
KeyCases ==
    {[kind |-> "camel", data |-> Render(sh, "camel"), expect |-> Render(sh, "snake")]
        : sh \in Shapes(MaxDepth)}
    \cup {[kind |-> "snake", data |-> Render(sh, "snake"), expect |-> Render(sh, "snake")]
             : sh \in LeafShapes}
    \cup {[kind |-> "other", data |-> x, expect |-> x]
             : x \in {Name("country"), ListV(<<Render([node |-> "between"], "camel")>>)}}

\* the relative and absolute dates, in the spellings of the documentation
\* and in others
DateStrings ==
    {Name("today"), Name("yesterday"), Name("Today"), Name("Yesterday")}
    \cup {Text(<<TNum(n), TWord(w)>>)
             : n \in {-1, 0, 1, 7, 200},
               w \in {"daysAgo", "monthAgo", "monthsAgo", "daysago", "days"}}
    \cup {Text(<<TNum(2), TWord("month"), TWord(" "), TWord("Ago")>>),
          Text(<<TWord("x"), TWord("daysAgo")>>),
          Text(<<TWord("monthAgo")>>),
          Text(<<TWord("last"), TWord("month")>>),
          Text(<<>>),
          DateStr(50)}

\* the days datetime.now() can fall on
Days == {100, 3652059}

DateCases == [date_str : DateStrings, now : Days]

\* the helper functions and the inputs of each
FnInputs ==
    [format_property_id    |-> ResourceIds,
     format_parent_id      |-> ResourceIds,
     preprocess_list_param |-> ListCases,
     preprocess_dict_param |-> DictCases,
     normalize_filter_keys |-> KeyCases,
     parse_date_string     |-> DateCases]

InitFns ==
    /\ analytics_client = DataClient
    /\ admin_client = AdminClient
    /\ default_property_id = Text(<<TNum(123)>>)
    /\ main_pc = "serving"
    /\ inv = Idle
    /\ fn \in DOMAIN FnInputs
    /\ arg \in FnInputs[fn]
    /\ out = Pending
    /\ tasks = NoTasks

\* out = format_property_id(arg)
ApplyFormatPropertyId ==
    /\ fn = "format_property_id"
    /\ out = Pending
    /\ out' = format_property_id(arg)
    /\ UNCHANGED <<globals, main_pc, inv, fn, arg, tasks>>

\* out = format_parent_id(arg)
ApplyFormatParentId ==
    /\ fn = "format_parent_id"
    /\ out = Pending
    /\ out' = format_parent_id(arg)
    /\ UNCHANGED <<globals, main_pc, inv, fn, arg, tasks>>

\* out = preprocess_list_param(arg.param)
ApplyPreprocessListParam ==
    /\ fn = "preprocess_list_param"
    /\ out = Pending
    /\ out' = preprocess_list_param(arg.param)
    /\ UNCHANGED <<globals, main_pc, inv, fn, arg, tasks>>

\* out = preprocess_dict_param(arg.param)
ApplyPreprocessDictParam ==
    /\ fn = "preprocess_dict_param"
    /\ out = Pending
    /\ out' = preprocess_dict_param(arg.param)
    /\ UNCHANGED <<globals, main_pc, inv, fn, arg, tasks>>

\* out = normalize_filter_keys(arg.data)
ApplyNormalizeFilterKeys ==
    /\ fn = "normalize_filter_keys"
    /\ out = Pending
    /\ out' = normalize_filter_keys(arg.data)
    /\ UNCHANGED <<globals, main_pc, inv, fn, arg, tasks>>

\* out = parse_date_string(arg.date_str) on the day arg.now
ApplyParseDateString ==
    /\ fn = "parse_date_string"
    /\ out = Pending
    /\ out' = parse_date_string(arg.date_str, arg.now)
    /\ UNCHANGED <<globals, main_pc, inv, fn, arg, tasks>>

NextFns ==
    \/ ApplyFormatPropertyId
    \/ ApplyFormatParentId
    \/ ApplyPreprocessListParam
    \/ ApplyPreprocessDictParam
    \/ ApplyNormalizeFilterKeys
    \/ ApplyParseDateString

SpecFns == InitFns /\ [][NextFns]_vars

---------------------------------------------------------------------------
(* The event loop of mcp.run(): invocations of the asynchronous get_report *)
(* and get_realtime_data in flight side by side, each suspended at its     *)
(* await of run_in_executor and resumed when its own vendor call ends      *)

LoopReportArgs ==
    {[metrics |-> ListV(<<Name("activeUsers")>>), dimensions |-> PyNone,
      start_date |-> call[1], end_date |-> Name("today"),
      dimension_filter |-> PyNone, metric_filter |-> PyNone,
      property_id |-> call[2], limit |-> PyNone, offset |-> PyNone]
        : call \in {<<Text(<<TNum(7), TWord("daysAgo")>>), PyNone>>,
                    <<Name("yesterday"), PropertyPath>>}}

LoopRealtimeArgs ==
    {[metrics |-> ListV(<<Name("activeUsers")>>),
      dimensions |-> ListV(<<Name("country")>>),
      property_id |-> PyNone, limit |-> PyNone]}

\* datetime.now() gives the same day to both dates of a call
SameDay == {now \in Clock : now[1] = now[2]}

\* the handler of a task from its call to its await or return
LoopFrame(tool, args, now) ==
    IF tool = "reporting.get_report"
    THEN reporting_get_report_call(args, now[1], now[2], TRUE)
    ELSE get_realtime_data_call("realtime.get_realtime_data", "executor", args)

\* an event loop whose coroutines keep their locals in one place: a task
\* resumes on the locals of another invocation of the same handler
ResumedOnSharedLocals(i, answer) ==
    LET peers == {j \in 1..MaxTasks \ {i} :
                     tasks[j].pc # "idle" /\ tasks[j].tool = tasks[i].tool}
        from  == IF peers = {} THEN i ELSE CHOOSE j \in peers : TRUE
    IN  Through([tasks[i] EXCEPT !.locals = tasks[from].locals], answer)

\* response = await loop.run_in_executor(...): the coroutine goes on, on its
\* own frame, with the answer to its own vendor call
Resumed(i, answer) == Through(tasks[i], answer)

LoopGetReport ==
    /\ main_pc = "serving"
    /\ \E i \in 1..MaxTasks, args \in LoopReportArgs, now \in SameDay :
          /\ tasks[i].pc = "idle"
          /\ \E f \in {LoopFrame("reporting.get_report", args, now)} :
                tasks' = [tasks EXCEPT ![i] = f]
    /\ UNCHANGED <<globals, main_pc, inv, harness>>

LoopGetRealtimeData ==
    /\ main_pc = "serving"
    /\ \E i \in 1..MaxTasks, args \in LoopRealtimeArgs, now \in SameDay :
          /\ tasks[i].pc = "idle"
          /\ \E f \in {LoopFrame("realtime.get_realtime_data", args, now)} :
                tasks' = [tasks EXCEPT ![i] = f]
    /\ UNCHANGED <<globals, main_pc, inv, harness>>

\* the executor's thread finished the vendor call of one task
LoopVendorReturns ==
    /\ \E i \in 1..MaxTasks :
          /\ tasks[i].pc = "await"
          /\ \E response \in VendorResponses(tasks[i].request) :
                tasks' = [tasks EXCEPT ![i] = Resumed(i, Ok(response))]
    /\ UNCHANGED <<globals, main_pc, inv, harness>>

LoopVendorRaises ==
    /\ \E i \in 1..MaxTasks :
          /\ tasks[i].pc = "await"
          /\ \E e \in VendorErrors :
                tasks' = [tasks EXCEPT ![i] = Resumed(i, Raise(e))]
    /\ UNCHANGED <<globals, main_pc, inv, harness>>

\* the caller of one task receives what its handler returned
LoopDeliver ==
    /\ \E i \in 1..MaxTasks :
          /\ tasks[i].pc \in {"done", "raised"}
          /\ tasks' = [tasks EXCEPT ![i] = Idle]
    /\ UNCHANGED <<globals, main_pc, inv, harness>>

NextLoop ==
    \/ Main
    \/ LoopGetReport
    \/ LoopGetRealtimeData
    \/ LoopVendorReturns
    \/ LoopVendorRaises
    \/ LoopDeliver

SpecLoop == Init /\ [][NextLoop]_vars

---------------------------------------------------------------------------
(* Properties of the tool handlers, under Spec *)

Uninitialized == analytics_client = PyNone /\ admin_client = PyNone

Ended == inv.pc \in {"done", "raised"}

\* the resources, which are no tools
Resources ==
    {"server.get_default_metadata", "server.get_specific_metadata",
     "server.get_properties_list", "resources.get_default_metadata",
     "resources.get_specific_metadata", "resources.get_properties_list"}

NotInitializedEnvelopes == {ErrorBody(NotInitialized), ErrorBody(AdminNotInitialized)}

\* C1: while analytics_client and admin_client are unset, an invocation of a
\* tool dispatches no vendor call and returns the envelope
\* {"error": "Google Analytics [admin] client not initialized"}.
C1_UninitializedToolReturnsNotInitialized ==
    (Uninitialized /\ inv.pc # "idle" /\ inv.tool \notin Resources) =>
        /\ inv.calls = 0
        /\ inv.pc = "done"
        /\ inv.result.body \in NotInitializedEnvelopes

\* C2: whatever the input and the vendor's answer, an invocation never ends
\* with an exception leaving the handler.
C2_NoExceptionLeavesAHandler == inv.pc # "raised"

\* C3: an invocation dispatches at most one vendor call, and one whose
\* vendor call raised has returned an error envelope whose message ends
\* with the vendor's message, without a second call.
C3_AtMostOneVendorCall ==
    /\ inv.pc # "idle" => inv.calls <= 1
    /\ (Ended /\ inv.calls >= 1 /\ ~inv.answer.ok) =>
          /\ inv.pc = "done"
          /\ inv.calls = 1
          /\ Has(inv.result.body, "error")
          /\ inv.result.body.error[Len(inv.result.body.error)] = inv.answer.exc.arg

\* a vendor call of get_realtime_data raised and the handler returned
C3_Witness ==
    /\ inv.pc = "done"
    /\ inv.tool = "realtime.get_realtime_data"
    /\ inv.calls = 1
    /\ ~inv.answer.ok
    /\ inv.result.body = ErrorBody(<<"Google API error: ", "429 quota exceeded">>)

NoFieldsGiven(args) == \A f \in FieldNames : args[f] = PyNone

\* C10: on a server whose admin client is initialised,
\* update_enhanced_measurement_settings called with all ten optional
\* settings unset returns {"error": "No fields provided to update"} and
\* dispatches no vendor call.
C10_NoFieldsProvided ==
    (/\ inv.pc # "idle"
     /\ inv.tool = "admin.update_enhanced_measurement_settings"
     /\ admin_client # PyNone
     /\ NoFieldsGiven(inv.args)) =>
        /\ inv.pc = "done"
        /\ inv.calls = 0
        /\ inv.result = json_dumps(ErrorBody(<<"No fields provided to update">>))

\* the call with no setting has returned on an initialised server
C10_Witness ==
    /\ inv.pc = "done"
    /\ inv.tool = "admin.update_enhanced_measurement_settings"
    /\ admin_client = AdminClient
    /\ NoFieldsGiven(inv.args)
    /\ inv.calls = 0

\* the names a call of update_enhanced_measurement_settings supplies
Supplied(args) == {f \in FieldNames : args[f] # PyNone}

\* the names a sequence lists
Listed(names) == {names[i] : i \in 1..Len(names)}

\* the update mask of the request in flight
MaskPaths == inv.request.request.fields.update_mask.paths

\* C11: when update_enhanced_measurement_settings is called on an
\* initialised server with some of the ten optional settings not None
\* (False and "" included), it dispatches one request whose update mask
\* lists exactly the names of the supplied settings, each once, and the
\* updated_fields of the result the handler returns from the vendor's
\* response equals that mask.
C11_MaskIsTheSuppliedFields ==
    (/\ inv.pc # "idle"
     /\ inv.tool = "admin.update_enhanced_measurement_settings"
     /\ admin_client # PyNone
     /\ ~NoFieldsGiven(inv.args)) =>
        /\ inv.calls = 1
        /\ Listed(MaskPaths) = Supplied(inv.args)
        /\ Len(MaskPaths) = Cardinality(Supplied(inv.args))
        /\ (inv.pc = "done" /\ inv.answer.ok) =>
              inv.result.body.updated_fields = MaskPaths

\* an update that supplies False for one setting and "" for another has
\* returned the vendor's settings
C11_Witness ==
    /\ inv.pc = "done"
    /\ inv.tool = "admin.update_enhanced_measurement_settings"
    /\ inv.calls = 1
    /\ inv.answer.ok
    /\ inv.args.scrolls_enabled = BoolV(FALSE)
    /\ inv.args.search_query_parameter = Text(<<>>)
    /\ inv.result.body.updated_fields = <<"scrolls_enabled", "search_query_parameter">>

\* the vendor methods whose request names a property
NamesAProperty ==
    {"run_report", "run_realtime_report", "get_metadata", "get_property",
     "list_google_ads_links", "list_data_streams", "create_data_stream",
     "update_enhanced_measurement_settings"}

\* the resource path by which a dispatched request names its property
RequestProperty(call) ==
    LET request == call.request
    IN  IF ~Has(request, "pb") THEN request
        ELSE IF call.method \in {"run_report", "run_realtime_report"}
        THEN request.fields.property
        ELSE IF call.method = "update_enhanced_measurement_settings"
        THEN request.fields.enhanced_measurement_settings.name
        ELSE IF Has(request.fields, "name") THEN request.fields.name
        ELSE request.fields.parent

\* how many times "properties/" occurs in a path
PrefixCount(path) ==
    Cardinality({i \in 1..Len(path.text) : path.text[i] = TWord("properties/")})

\* C12: every vendor request a report, realtime, metadata or admin tool
\* dispatches names its property with exactly one "properties/" prefix,
\* whether the caller passed "123" or "properties/123".
C12_OnePropertiesPrefix ==
    (inv.pc # "idle" /\ inv.calls >= 1 /\ inv.request.method \in NamesAProperty) =>
        PrefixCount(RequestProperty(inv.request)) = 1

\* the states an invocation of get_report with these arguments goes through
ReportStates(tool, args) ==
    UNION {{f} \cup {Through(f, answer) : answer \in Answers(f)}
              : f \in IF tool = "server.get_report"
                       THEN {server_get_report_call(args, now[1], now[2])
                                : now \in Clock}
                       ELSE {reporting_get_report_call(args, now[1], now[2], m)
                                : now \in Clock, m \in BOOLEAN}}

\* C18: a get_report whose dimension_filter has camelCase keys dispatches
\* the request and returns the result of the get_report with the same
\* filter in snake_case keys: but for the spelling of the argument, its
\* state is a state of that invocation.
C18_CamelCaseFilterIsNormalized ==
    (/\ inv.pc # "idle"
     /\ inv.tool \in {"server.get_report", "reporting.get_report"}
     /\ inv.args.dimension_filter = DictV(CamelFilter)) =>
        LET snake == [inv.args EXCEPT !.dimension_filter = DictV(GoodFilter)]
        IN  [inv EXCEPT !.args = snake] \in ReportStates(inv.tool, snake)

\* C19: an invocation that ends in an error has returned a JSON-encoded
\* string whose value is a mapping with the one key "error".
C19_ErrorsAreJsonEnvelopes ==
    (inv.pc = "done" /\ Has(inv.result.body, "error")) =>
        /\ inv.result.fmt = "json"
        /\ DOMAIN inv.result.body = {"error"}

\* the tools that run a report
ReportTools == {"server.get_report", "reporting.run_report", "reporting.get_report"}

\* the names a metrics or dimensions argument asks for
RequestedNames(param) ==
    LET names == preprocess_list_param(param)
    IN  IF Falsy(names) THEN <<>> ELSE names.v

\* a list of headers carries these names, in their order
Carries(headers, names) ==
    /\ Len(headers) = Len(names)
    /\ \A i \in 1..Len(names) : headers[i].name = names[i]

\* C20: when the vendor answers a report tool with a response of k rows,
\* the tool returns a JSON body whose rows are k entries in the order of
\* the response, each with the row's dimension values and metric values as
\* the arrays "dimensions" and "metrics", whose dimension_headers and
\* metrics_headers carry the requested names, and whose row_count is the
\* response's row_count.
C20_ReportRowsFlattened ==
    (/\ inv.pc = "done"
     /\ inv.tool \in ReportTools
     /\ inv.calls = 1
     /\ inv.answer.ok) =>
        LET response == inv.answer.val.fields
            body == inv.result.body
        IN  /\ inv.result.fmt = "json"
            /\ {"rows", "dimension_headers", "metrics_headers", "row_count"}
                   \subseteq DOMAIN body
            /\ Len(body.rows) = Len(response.rows)
            /\ \A r \in 1..Len(response.rows) :
                   /\ DOMAIN body.rows[r] = {"dimensions", "metrics"}
                   /\ body.rows[r].dimensions =
                         [j \in 1..Len(response.rows[r].dimension_values) |->
                             response.rows[r].dimension_values[j].value]
                   /\ body.rows[r].metrics =
                         [j \in 1..Len(response.rows[r].metric_values) |->
                             response.rows[r].metric_values[j].value]
            /\ Carries(body.dimension_headers, RequestedNames(inv.args.dimensions))
            /\ Carries(body.metrics_headers, RequestedNames(inv.args.metrics))
            /\ body.row_count = response.row_count

\* the metadata resources, and the get_metadata_tool of the same module
MetadataResources ==
    {"server.get_default_metadata", "server.get_specific_metadata",
     "resources.get_default_metadata", "resources.get_specific_metadata"}

ToolOfResource(resource) ==
    IF resource \in {"server.get_default_metadata", "server.get_specific_metadata"}
    THEN "server.get_metadata_tool" ELSE "metadata.get_metadata_tool"

\* the property a metadata resource was asked for
ResourceProperty(iv) ==
    IF iv.tool \in {"server.get_default_metadata", "resources.get_default_metadata"}
    THEN default_property_id ELSE iv.args.property_id

\* what get_metadata_tool(property_id) returns when the vendor gives this
\* answer to its request
ToolOutcome(tool, property_id, answer) ==
    LET frame == get_property_metadata_call(
                     Invocation(tool, [property_id |-> property_id]),
                     "executor", property_id)
        end == Through(frame, answer)
    IN  [pc |-> end.pc, result |-> end.result]

\* C21: a metadata resource that has ended for a property returns the JSON
\* get_metadata_tool returns for the same property and the same answer of
\* the vendor, a response or an error.
C21_ResourceReturnsWhatTheToolReturns ==
    (/\ Ended
     /\ inv.tool \in MetadataResources
     /\ ~Falsy(ResourceProperty(inv))) =>
        [pc |-> inv.pc, result |-> inv.result]
            = ToolOutcome(ToolOfResource(inv.tool), ResourceProperty(inv), inv.answer)

\* all three globals hold what a complete initialize_client assigns
Initialized ==
    /\ analytics_client = DataClient
    /\ admin_client = AdminClient
    /\ ~Falsy(default_property_id)

\* C22: initialize_client raises when one of the three environment
\* variables is absent or empty or when the credentials or a client cannot
\* be constructed; main raises it again, so the server starts serving only
\* after a complete initialization, and once main has ended no invocation
\* is accepted.
C22_FailedInitializationNeverServes ==
    /\ [](\A env \in Environments, built \in {"none", "data", "both"} :
            (\/ Falsy(env.client_email)
             \/ Falsy(env.private_key)
             \/ Falsy(env.property_id)
             \/ built # "both") => initialize_client(env, built).raised)
    /\ [][(main_pc = "start" /\ main_pc' = "serving") => Initialized']_vars
    /\ [][main_pc = "exited" => (main_pc' = "exited" /\ inv' = inv)]_vars

\* main has ended on an initialize_client that raised before it set a client
C22_Witness == main_pc = "exited" /\ analytics_client = PyNone /\ inv.pc = "idle"

\* C23: analytics_client, admin_client and default_property_id are written
\* only by initialize_client, which main runs once and with no invocation
\* in flight; no step of a tool, resource or prompt invocation, successful
\* or failing, changes any of the three.
C23_GlobalsWrittenOnlyByInitializeClient ==
    [][/\ (globals' # globals) =>
              (main_pc = "start" /\ main_pc' # "start" /\ inv.pc = "idle")
       /\ (main_pc' = "start") => (main_pc = "start")
       /\ (inv' # inv) => (globals' = globals)]_vars

\* an invocation that named its own property has ended on an initialised
\* server, and the default is still another property
C23_Witness ==
    /\ Initialized
    /\ main_pc = "serving"
    /\ inv.pc \in {"done", "raised"}
    /\ "property_id" \in DOMAIN inv.args
    /\ ~Falsy(inv.args.property_id)
    /\ inv.args.property_id # default_property_id

\* C24: every tool and resource checks the client first: an invocation made
\* while the clients are unset ends, for every argument value, by returning
\* the not-initialized envelope; it neither raises nor returns the message
\* of a parameter check.
C24_ClientCheckedFirst ==
    (Uninitialized /\ inv.pc # "idle") =>
        /\ inv.pc = "done"
        /\ inv.calls = 0
        /\ inv.result.body \in NotInitializedEnvelopes

\* the handlers declared with def; every other handler is an async def
SyncHandlers ==
    {"server.get_report", "server.get_realtime_data",
     "server.create_property", "server.create_data_stream"}

\* C25: a vendor call dispatched by an asynchronous tool or resource handler
\* runs through the event loop's executor, never on the event loop's thread.
C25_AsyncHandlersUseTheExecutor ==
    (inv.pc # "idle" /\ inv.calls = 1 /\ inv.tool \notin SyncHandlers) =>
        inv.request.via = "executor"

\* what a report handler's parameter normalization makes of a filter
\* argument: run_report takes it as it is, the legacy get_report skips an
\* empty one
NormalizedFilter(tool, param) ==
    IF tool = "reporting.run_report" THEN Ok(param)
    ELSE IF tool = "reporting.get_report" /\ Falsy(param) THEN Ok(PyNone)
    ELSE preprocess_dict_param(param)

\* the filter object a report handler builds from a normalized filter
BuiltFilter(tool, config) ==
    IF Falsy(config) THEN Ok(PyNone)
    ELSE IF tool = "server.get_report" THEN build_filter_expression(config.v)
    ELSE Ok(Proto("FilterExpression", config.v))

\* the request of the invocation holds the filter built from param
CarriesBuilt(param, field) ==
    LET normalized == NormalizedFilter(inv.tool, param)
    IN  /\ normalized.ok
        /\ BuiltFilter(inv.tool, normalized.val).ok
        /\ field = BuiltFilter(inv.tool, normalized.val).val

\* C26: a report invocation normalizes its parameters, builds its filters,
\* dispatches, flattens and returns, in this order: a dispatched request
\* holds the filters built from the normalized arguments, both successfully;
\* an invocation is seen under way only while its one vendor call is
\* pending, with nothing returned yet; and the step that ends the wait
\* takes the vendor's answer and leaves the request as it was dispatched.
C26_ReportStepsInOrder ==
    /\ [](inv.pc # "idle" /\ inv.tool \in ReportTools =>
            /\ inv.pc \in {"await", "done", "raised"}
            /\ inv.pc = "await" =>
                  (inv.calls = 1 /\ inv.answer = Pending /\ inv.result = Pending)
            /\ inv.calls = 1 =>
                  /\ CarriesBuilt(inv.args.dimension_filter,
                                  inv.request.request.fields.dimension_filter)
                  /\ CarriesBuilt(inv.args.metric_filter,
                                  inv.request.request.fields.metric_filter)
            /\ (inv.pc # "await" /\ inv.calls = 1) => inv.answer # Pending)
    /\ [][(inv.pc = "await" /\ inv.tool \in ReportTools /\ inv' # inv) =>
              /\ inv'.pc \in {"done", "raised"}
              /\ inv'.answer # Pending
              /\ inv'.calls = 1
              /\ inv'.request = inv.request]_vars

\* a get_report of server.py that was given a filter has dispatched the
\* built filter and returned the flattened report
C26_Witness ==
    /\ inv.pc = "done"
    /\ inv.tool = "server.get_report"
    /\ inv.calls = 1
    /\ inv.args.dimension_filter = DictV(GoodFilter)
    /\ inv.request.request.fields.dimension_filter # PyNone
    /\ inv.answer.ok
    /\ Has(inv.result.body, "rows")

\* the handlers that take metrics and an optional property_id
MetricsTools ==
    {"server.get_report", "reporting.get_report",
     "server.get_realtime_data", "realtime.get_realtime_data"}

\* a property ID or resource path without its "properties/" prefixes
IdOf(path) == SelectSeq(path.text, LAMBDA t : t # TWord("properties/"))

\* C28: get_report and get_realtime_data dispatch a vendor call only with a
\* non-empty normalized metrics list and a property ID, the caller's when
\* given and the configured default otherwise; with empty or missing
\* metrics, or with neither property ID, they return an error envelope and
\* dispatch nothing.
C28_DispatchNeedsMetricsAndProperty ==
    (inv.pc # "idle" /\ inv.tool \in MetricsTools) =>
        LET metrics == preprocess_list_param(inv.args.metrics)
            chosen  == IF Falsy(inv.args.property_id) THEN default_property_id
                       ELSE inv.args.property_id
        IN  /\ inv.calls = 1 =>
                  /\ ~Falsy(metrics)
                  /\ ~Falsy(chosen)
                  /\ IdOf(RequestProperty(inv.request)) = IdOf(chosen)
            /\ (Falsy(metrics) \/ Falsy(chosen)) =>
                  /\ inv.pc = "done"
                  /\ inv.calls = 0
                  /\ Has(inv.result.body, "error")

\* C29: initialize_client is all-or-nothing: when it raises, the three
\* globals keep the values they had, so they are always all unset or all
\* set.
C29_InitializeClientAllOrNothing ==
    /\ (analytics_client = PyNone) <=> (admin_client = PyNone)
    /\ (admin_client = PyNone) <=> (default_property_id = PyNone)

\* C30: when every dispatched vendor call is answered, every invocation
\* comes to its return, of a result or of an error envelope.
C30_EveryInvocationReturns == (inv.pc # "idle") ~> (inv.pc = "done")

---------------------------------------------------------------------------
(* Properties of build_filter_expression, under SpecPure *)

Built == out # Pending

Discriminators == {"filter", "and_group", "or_group", "not_expression"}

PredicateKeys ==
    {"string_filter", "numeric_filter", "between_filter", "in_list_filter",
     "empty_filter"}

\* the configurations under node that its build visits: the children of
\* the branch the if / elif chain selects
Children(node) ==
    IF Has(node, "filter") THEN <<>>
    ELSE IF Has(node, "and_group")
    THEN DictGet(node["and_group"], "expressions", <<>>)
    ELSE IF Has(node, "or_group")
    THEN DictGet(node["or_group"], "expressions", <<>>)
    ELSE IF Has(node, "not_expression") THEN <<node["not_expression"]>>
    ELSE <<>>

RECURSIVE ExactlyOneKey(_)
\* node and every node nested in it hold exactly one discriminator key
ExactlyOneKey(node) ==
    /\ Cardinality(DOMAIN node \cap Discriminators) = 1
    /\ \A i \in 1..Len(Children(node)) : ExactlyOneKey(Children(node)[i])

\* C4: build_filter succeeds only on a tree in which every node holds
\* exactly one of filter, and_group, or_group, not_expression; a node with
\* none or with two or more of them makes the build fail.
C4_ExactlyOneDiscriminator == (Built /\ out.ok) => ExactlyOneKey(arg)

\* the numeric value v was built as built (when ok): int64_value if v has
\* that key, else double_value, and no build succeeds without either
SelectsVariant(v, ok, built) ==
    IF Has(v, "int64_value") THEN ok => built.kind = "int64_value"
    ELSE IF Has(v, "double_value") THEN ok => built.kind = "double_value"
    ELSE ~ok

\* C5: the value of a numeric_filter and the from_value of a between_filter
\* are built from int64_value if present, else from double_value, and the
\* build fails when the value has neither key.
C5_NumericValueVariant ==
    (/\ Built
     /\ Has(arg, "filter")
     /\ Has(arg["filter"], "field_name")
     /\ ~Has(arg["filter"], "string_filter")) =>
        /\ (/\ Has(arg["filter"], "numeric_filter")
            /\ Has(arg["filter"]["numeric_filter"], "value")) =>
              SelectsVariant(arg["filter"]["numeric_filter"]["value"], out.ok,
                             out.val.filter.one_filter.value)
        /\ (/\ ~Has(arg["filter"], "numeric_filter")
            /\ Has(arg["filter"], "between_filter")
            /\ Has(arg["filter"]["between_filter"], "from_value")) =>
              SelectsVariant(arg["filter"]["between_filter"]["from_value"], out.ok,
                             out.val.filter.one_filter.from_value)

\* C6: a filter node without field_name fails; one with field_name and one
\* predicate key that builds yields a Leaf with that field_name whose
\* predicate is the one the key names (empty_filter included), and a
\* string_filter without case_sensitive yields case_sensitive = FALSE.
C6_LeafPredicate ==
    (Built /\ DOMAIN arg = {"filter"}) =>
        /\ ~Has(arg["filter"], "field_name") => ~out.ok
        /\ (Has(arg["filter"], "field_name") /\ out.ok) =>
              /\ out.val.kind = "filter"
              /\ out.val.filter.field_name = arg["filter"]["field_name"]
              /\ \A k \in PredicateKeys :
                    DOMAIN arg["filter"] \cap PredicateKeys = {k} =>
                        out.val.filter.one_filter.kind = k
              /\ (/\ Has(arg["filter"], "string_filter")
                  /\ ~Has(arg["filter"]["string_filter"], "case_sensitive")) =>
                    out.val.filter.one_filter.case_sensitive = FALSE
        /\ (/\ Has(arg["filter"], "field_name")
            /\ DOMAIN arg["filter"] \cap PredicateKeys = {"empty_filter"}) => out.ok

\* the string_filter of the leaf arg names a match type outside the enum
BadMatchType ==
    /\ Has(arg, "filter")
    /\ Has(arg["filter"], "field_name")
    /\ Has(arg["filter"], "string_filter")
    /\ Has(arg["filter"]["string_filter"], "match_type")
    /\ arg["filter"]["string_filter"]["match_type"] \notin MatchType

\* the numeric_filter of the leaf arg, the predicate that is built, names
\* an operation outside the enum
BadOperation ==
    /\ Has(arg, "filter")
    /\ Has(arg["filter"], "field_name")
    /\ ~Has(arg["filter"], "string_filter")
    /\ Has(arg["filter"], "numeric_filter")
    /\ Has(arg["filter"]["numeric_filter"], "operation")
    /\ arg["filter"]["numeric_filter"]["operation"] \notin Operation

\* the value of the numeric_filter of arg is there and converts
GoodNumericValue ==
    /\ Has(arg["filter"]["numeric_filter"], "value")
    /\ NumericValue(arg["filter"]["numeric_filter"]["value"]).ok

AllBuild(configs) ==
    \A i \in 1..Len(configs) : build_filter_expression(configs[i]).ok

BuiltChildren(configs) ==
    [i \in 1..Len(configs) |-> build_filter_expression(configs[i]).val]

\* C8: a group over children that all build yields a node of the group's
\* kind whose expressions are the children's builds, in the same order and
\* number; a not_expression over a child that builds yields a Not node
\* over that child's build.
C8_GroupsPreserveChildren ==
    Built =>
        /\ \A g \in {"and_group", "or_group"} :
              (/\ DOMAIN arg = {g}
               /\ Has(arg[g], "expressions")
               /\ AllBuild(arg[g]["expressions"])) =>
                  /\ out.ok
                  /\ out.val.kind = g
                  /\ out.val.expressions = BuiltChildren(arg[g]["expressions"])
        /\ (/\ DOMAIN arg = {"not_expression"}
            /\ build_filter_expression(arg["not_expression"]).ok) =>
              /\ out.ok
              /\ out.val.kind = "not_expression"
              /\ out.val.not_expression = build_filter_expression(arg["not_expression"]).val

\* an or_group over two different leaves was built
C8_Witness ==
    /\ Built
    /\ arg = [or_group |-> GroupOf(<<LeafA, LeafB>>)]
    /\ out.ok
    /\ Len(out.val.expressions) = 2
    /\ out.val.expressions[1] # out.val.expressions[2]
    /\ out.val.expressions[1].filter.field_name = "country"

RECURSIVE SomeBuildFails(_)
\* the build of node, or of a node that building it visits, fails
SomeBuildFails(node) ==
    \/ ~build_filter_expression(node).ok
    \/ \E i \in 1..Len(Children(node)) : SomeBuildFails(Children(node)[i])

\* C9: when the build of a node at any depth fails, the top-level build
\* fails, returning no tree, and a get_report of server.py given that
\* filter (a non-empty mapping: the handler builds no filter from an empty
\* one) returns an error envelope without dispatching a vendor call.
C9_BuildFailsAtomically ==
    SomeBuildFails(arg) =>
        /\ Built => ~out.ok
        /\ (inv.pc # "idle" /\ arg # EmptyDict) =>
              /\ inv.pc = "done"
              /\ inv.calls = 0
              /\ Has(inv.result.body, "error")

\* a group whose first child builds and whose second, nested, child holds a
\* leaf that fails was built, and was the filter of a get_report
C9_Witness ==
    /\ Built
    /\ ~out.ok
    /\ Has(arg, "and_group")
    /\ Len(arg["and_group"]["expressions"]) = 2
    /\ arg["and_group"]["expressions"][1] = LeafA
    /\ Has(arg["and_group"]["expressions"][2], "not_expression")
    /\ inv.pc = "done"
    /\ inv.calls = 0

---------------------------------------------------------------------------
(* Properties of the helper functions, under SpecFns *)

Applied(name) == fn = name /\ out # Pending

\* s starts with the characters of prefix
StartsWith(s, prefix) == Len(s.text) >= 1 /\ s.text[1] = TWord(prefix)

\* what normalize_resource_path is to return: s when it starts with
\* "{prefix}/", "{prefix}/{s}" otherwise
Qualified(s, prefix) ==
    IF StartsWith(s, prefix) THEN s ELSE Text(<<TWord(prefix)>> \o s.text)

\* C13: format_property_id (prefix "properties") and format_parent_id
\* (prefix "accounts") return the input unchanged when it starts with
\* "{prefix}/" and "{prefix}/{input}" otherwise, and applying either to its
\* own result changes nothing.
C13_ResourcePathIdempotent ==
    /\ Applied("format_property_id") =>
          /\ out = Qualified(arg, "properties/")
          /\ format_property_id(out) = out
    /\ Applied("format_parent_id") =>
          /\ out = Qualified(arg, "accounts/")
          /\ format_parent_id(out) = out

\* format_property_id has qualified "123" and format_parent_id has left
\* "accounts/123" alone
C13_Witness ==
    \/ /\ Applied("format_property_id")
       /\ arg = Text(<<TNum(123)>>)
       /\ out = PropertyPath
    \/ /\ Applied("format_parent_id")
       /\ arg = Text(<<TWord("accounts/"), TNum(123)>>)
       /\ out = arg

\* C14: preprocess_list_param returns the parsed sequence for a str that is
\* a JSON array, [s] for a str s that is no JSON or is JSON of another
\* value, a list as given, and None only for None.
C14_ListParam ==
    Applied("preprocess_list_param") =>
        /\ out = arg.expect
        /\ arg.kind \in {"not json", "no array"} => out = ListV(<<arg.param>>)
        /\ arg.kind = "list" => out = arg.param
        /\ out = PyNone <=> arg.param = PyNone

\* the text ["activeUsers","country"] has become the list of its two
\* elements
C14_Witness ==
    /\ Applied("preprocess_list_param")
    /\ arg.param = ArrayText(<<TStr(Name("activeUsers")), TStr(Name("country"))>>)
    /\ out = ListV(<<Name("activeUsers"), Name("country")>>)

\* C15: preprocess_dict_param returns a dict as given and the parsed
\* mapping for a str that is a JSON object; it raises ValueError for a str
\* that is no JSON or is JSON of another value; what it returns is a
\* mapping, or None for the input None only.
C15_DictParam ==
    Applied("preprocess_dict_param") =>
        /\ arg.expect.ok => out = arg.expect
        /\ ~arg.expect.ok => ~out.ok /\ out.exc.exc = "ValueError"
        /\ arg.kind = "dict" => out = Ok(arg.param)
        /\ out.ok => IF arg.param = PyNone THEN out.val = PyNone
                     ELSE out.val.t = "dict"

\* the text of a JSON array has raised ValueError
C15_Witness ==
    /\ Applied("preprocess_dict_param")
    /\ arg.param = ArrayText(<<TNum(1)>>)
    /\ ~out.ok
    /\ out.exc.exc = "ValueError"

RECURSIVE KeysIn(_)
\* the keys of a value, at any depth through mappings and sequences
KeysIn(value) ==
    IF value.t = "dict"
    THEN DOMAIN value.v \cup UNION {KeysIn(value.v[k]) : k \in DOMAIN value.v}
    ELSE IF value.t = "list"
    THEN UNION {KeysIn(value.v[i]) : i \in 1..Len(value.v)}
    ELSE {}

\* the fourteen camelCase keys
CamelKeys ==
    {"fieldName", "matchType", "caseSensitive", "int64Value", "doubleValue",
     "fromValue", "toValue", "stringFilter", "numericFilter", "betweenFilter",
     "inListFilter", "andGroup", "orGroup", "notExpression"}

\* C16: for a mapping whose keys are recognised camelCase keys at any depth
\* through mappings and sequences of mappings, normalize_filter_keys
\* returns the mapping with the snake_case keys, which holds no recognised
\* camelCase key and which normalize_filter_keys leaves as it is.
C16_KeyCasingIdempotent ==
    (Applied("normalize_filter_keys") /\ arg.kind \in {"camel", "snake"}) =>
        /\ out = arg.expect
        /\ normalize_filter_keys(out) = out
        /\ KeysIn(out) \cap CamelKeys = {}

\* an andGroup of an inListFilter and a notExpression has been normalised
C16_Witness ==
    /\ Applied("normalize_filter_keys")
    /\ arg.kind = "camel"
    /\ {"andGroup", "notExpression", "inListFilter", "caseSensitive"} \subseteq KeysIn(arg.data)
    /\ {"and_group", "not_expression", "in_list_filter", "case_sensitive"} \subseteq KeysIn(out)

\* s is "<N><word>", N an integer and word one of words
Counts(s, words) ==
    Len(s.text) = 2 /\ s.text[1].k = "num" /\ IsWordIn(s.text[2], words)

\* the N of "<N><word>"
Count(s) == s.text[1].val.n

\* C17: parse_date_string maps "today" to the current date, "yesterday" to
\* the day before, "NdaysAgo" to N days before and "NmonthAgo" /
\* "NmonthsAgo" to 30*N days before, and returns every other str
\* unchanged.
C17_RelativeDates ==
    Applied("parse_date_string") =>
        LET s == arg.date_str
        IN  out = Ok(IF s = Name("today") THEN DateStr(arg.now)
                     ELSE IF s = Name("yesterday") THEN DateStr(arg.now - 1)
                     ELSE IF Counts(s, {"daysAgo"}) THEN DateStr(arg.now - Count(s))
                     ELSE IF Counts(s, {"monthAgo", "monthsAgo"})
                     THEN DateStr(arg.now - 30 * Count(s))
                     ELSE s)

---------------------------------------------------------------------------
(* Properties of interleaved invocations, under SpecLoop *)

\* what the invocation of a task is when it runs alone up to its await
AloneFrames(task) == {LoopFrame(task.tool, task.args, now) : now \in SameDay}

\* what the invocation of a task returns when it runs alone and the vendor
\* gives it the answer the task got
RunAlone(task) == {Through(f, task.answer) : f \in AloneFrames(task)}

\* C27: invocations that interleave at their vendor calls each return what
\* they return when run alone with the same arguments and the same vendor
\* answer: a step of one invocation changes no other invocation, and no
\* step changes the client singleton while an invocation is in flight.
C27_InterleavedInvocationsAreIndependent ==
    /\ [](\A i \in 1..MaxTasks :
            /\ tasks[i].pc = "await" => tasks[i] \in AloneFrames(tasks[i])
            /\ tasks[i].pc \in {"done", "raised"} => tasks[i] \in RunAlone(tasks[i]))
    /\ [][\A i, j \in 1..MaxTasks :
             (i # j /\ tasks'[i] # tasks[i]) => tasks'[j] = tasks[j]]_vars
    /\ [][(\E i \in 1..MaxTasks : tasks[i].pc # "idle") => globals' = globals]_vars

\* one get_report has returned its report while another get_report, called
\* with other arguments, is still waiting for the vendor
C27_Witness ==
    \E i, j \in 1..MaxTasks :
        /\ tasks[i].pc = "done"
        /\ tasks[j].pc = "await"
        /\ tasks[i].tool = "reporting.get_report"
        /\ tasks[j].tool = "reporting.get_report"
        /\ tasks[i].args # tasks[j].args
        /\ tasks[i].answer.ok
        /\ Has(tasks[i].result.body, "parsed_date_ranges")

====
